---------------------------- MODULE Spec2Model ----------------------------
(***************************************************************************)
(* Model of rotmg-player-stats: the aggregation pipeline                   *)
(* (scripts/aggregate.ts), the scraper, the baseline preparation and the   *)
(* launcher migration (scripts/scrape.ts, scripts/prepare-baseline.ts),    *)
(* and the dashboard (src/App.tsx, src/hooks/useDailyData.ts,              *)
(* src/utils/metrics.ts, src/utils/dateRange.ts,                           *)
(* src/components/SharedRangeSlider.tsx).                                  *)
(*                                                                         *)
(* Representation.                                                         *)
(*   - A JavaScript string is a sequence of one-character strings.         *)
(*   - A file is a record [exists, lines]; lines is the result of          *)
(*     splitting the file's text on line breaks.                           *)
(*   - `number | null` and NaN-able results are options: <<>> is           *)
(*     null/NaN/undefined, <<n>> is the number n.                          *)
(*   - A Map is a function whose DOMAIN is the key set.  The only use the  *)
(*     program makes of Map iteration order is to feed a sort.             *)
(*   - Instants are held in SECONDS since the epoch: every *Ms value of    *)
(*     the program is 1000 times the model's value (the inputs have second *)
(*     resolution, and 32-bit integers cannot hold the millisecond         *)
(*     values).                                                            *)
(*   - A Number that is no integer is an IEEE 754 double, held exactly as  *)
(*     a sign and nine digits of base 2^12; every operation on doubles     *)
(*     rounds as the program's does.  A quotient of two instants is the    *)
(*     same in seconds and in milliseconds.                                *)
(***************************************************************************)
EXTENDS Integers, Sequences, FiniteSets, TLC

----------------------------------------------------------------------------
(* Options *)

Null == <<>>

Some(n) == <<n>>

IsNull(o) == Len(o) = 0

Val(o) == o[1]

----------------------------------------------------------------------------
(* Characters and strings *)

Digits == <<"0", "1", "2", "3", "4", "5", "6", "7", "8", "9">>

DigitValues ==
  "0" :> 0 @@ "1" :> 1 @@ "2" :> 2 @@ "3" :> 3 @@ "4" :> 4 @@
  "5" :> 5 @@ "6" :> 6 @@ "7" :> 7 @@ "8" :> 8 @@ "9" :> 9

IsDigit(c) == c \in DOMAIN DigitValues

DigitVal(c) == DigitValues[c]

\* UTF-16 code units of the characters the inputs use.
CharCodes ==
  "\t" :> 9 @@ "\n" :> 10 @@ "\f" :> 12 @@ "\r" :> 13 @@ " " :> 32 @@
  "+" :> 43 @@ "," :> 44 @@ "-" :> 45 @@ "." :> 46 @@ "/" :> 47 @@
  ":" :> 58 @@ "T" :> 84 @@ "Z" :> 90 @@ "x" :> 120

CharCode(c) ==
  IF c \in DOMAIN DigitValues THEN 48 + DigitValues[c]
  ELSE IF c \in DOMAIN CharCodes THEN CharCodes[c]
  ELSE 65535

\* The WhiteSpace and LineTerminator code points String.prototype.trim and
\* the white space skipped by parseInt strip.  A character that has no
\* escape in a string is written as the name of its code point.
WhiteSpace ==
  {"\t", "\n", "\f", "\r", " ", "U+000B", "U+00A0", "U+1680", "U+2000",
   "U+2001", "U+2002", "U+2003", "U+2004", "U+2005", "U+2006", "U+2007",
   "U+2008", "U+2009", "U+200A", "U+2028", "U+2029", "U+202F", "U+205F",
   "U+3000", "U+FEFF"}

IsSpace(c) == c \in WhiteSpace

StrCompare(a, b) ==
  IF a = b THEN 0
  ELSE LET n == IF Len(a) <= Len(b) THEN Len(a) ELSE Len(b)
           differ == {i \in 1..n :
                        a[i] # b[i] /\ CharCode(a[i]) # CharCode(b[i])}
       IN IF differ = {}
          THEN (IF Len(a) < Len(b) THEN -1 ELSE IF Len(a) > Len(b) THEN 1 ELSE 0)
          ELSE LET first == CHOOSE i \in differ : \A j \in differ : i <= j
               IN IF CharCode(a[first]) < CharCode(b[first]) THEN -1 ELSE 1

\* a < b on JavaScript strings: code-unit lexicographic order.
StrLess(a, b) == StrCompare(a, b) < 0

\* a.localeCompare(b).  On the strings the program sorts (digits with
\* hyphens at fixed positions) collation order is code-unit order.
localeCompare(a, b) == StrCompare(a, b)

RECURSIVE TrimStart(_)
TrimStart(s) ==
  IF Len(s) > 0 /\ IsSpace(s[1]) THEN TrimStart(Tail(s)) ELSE s

RECURSIVE TrimEnd(_)
TrimEnd(s) ==
  IF Len(s) > 0 /\ IsSpace(s[Len(s)]) THEN TrimEnd(SubSeq(s, 1, Len(s) - 1)) ELSE s

\* String.prototype.trim
Trim(s) == TrimEnd(TrimStart(s))

\* s.split(","): all the parts, in order.
RECURSIVE SplitFrom(_, _, _)
SplitFrom(s, i, cur) ==
  IF i > Len(s) THEN <<cur>>
  ELSE IF s[i] = "," THEN <<cur>> \o SplitFrom(s, i + 1, <<>>)
  ELSE SplitFrom(s, i + 1, Append(cur, s[i]))

\* line.split(",", 3).map((part) => part.trim())
SplitColumns(line) ==
  LET parts == SplitFrom(line, 1, <<>>)
      n == IF Len(parts) < 3 THEN Len(parts) ELSE 3
  IN [i \in 1..n |-> Trim(parts[i])]

\* columns[i] of the split, undefined (Null) when there is no such part.
Column(cols, i) == IF i <= Len(cols) THEN Some(cols[i]) ELSE Null

\* !raw : the column is undefined or the empty string.
Falsy(col) == IsNull(col) \/ Len(Val(col)) = 0

RECURSIVE DigitRun(_, _, _)
DigitRun(s, i, acc) ==
  IF i > Len(s) \/ ~IsDigit(s[i]) THEN acc
  ELSE DigitRun(s, i + 1, acc * 10 + DigitVal(s[i]))

\* Number.parseInt(s, 10): leading white space, an optional sign, then the
\* longest run of digits; NaN (Null) when there is no digit.
ParseInt(s0) ==
  LET s == TrimStart(s0)
      signed == Len(s) > 0 /\ s[1] \in {"-", "+"}
      sign == IF Len(s) > 0 /\ s[1] = "-" THEN -1 ELSE 1
      body == IF signed THEN Tail(s) ELSE s
  IN IF Len(body) = 0 \/ ~IsDigit(body[1]) THEN Null
     ELSE Some(sign * DigitRun(body, 1, 0))

\* /^\d{4}-\d{2}-\d{2}$/.test(s)
MatchesDate(s) ==
  /\ Len(s) = 10
  /\ \A i \in {1, 2, 3, 4, 6, 7, 9, 10} : IsDigit(s[i])
  /\ s[5] = "-"
  /\ s[8] = "-"

\* /^\d{2}:\d{2}:\d{2}$/.test(s)
MatchesTime(s) ==
  /\ Len(s) = 8
  /\ \A i \in {1, 2, 4, 5, 7, 8} : IsDigit(s[i])
  /\ s[3] = ":"
  /\ s[6] = ":"

----------------------------------------------------------------------------
(* Calendar arithmetic of Date.parse and Date.prototype.toISOString *)

\* 24 * 60 * 60 * 1000 ms, in the model's unit (seconds).
msPerDay == 86400

IsLeapYear(y) == (y % 4 = 0 /\ y % 100 # 0) \/ y % 400 = 0

DaysInMonth(y, m) ==
  IF m = 2 THEN (IF IsLeapYear(y) THEN 29 ELSE 28)
  ELSE IF m \in {4, 6, 9, 11} THEN 30 ELSE 31

\* Days from 1970-01-01 to the civil date y-m-d (proleptic Gregorian).
DaysFromCivil(y, m, d) ==
  LET yy == IF m <= 2 THEN y - 1 ELSE y
      era == yy \div 400
      yoe == yy - era * 400
      mp == IF m > 2 THEN m - 3 ELSE m + 9
      doy == (153 * mp + 2) \div 5 + d - 1
      doe == yoe * 365 + yoe \div 4 - yoe \div 100 + doy
  IN era * 146097 + doe - 719468

\* The civil date of the day number z, as [y, m, d].
CivilFromDays(z) ==
  LET zz == z + 719468
      era == zz \div 146097
      doe == zz - era * 146097
      yoe == (doe - doe \div 1460 + doe \div 36524 - doe \div 146096) \div 365
      doy == doe - (365 * yoe + yoe \div 4 - yoe \div 100)
      mp == (5 * doy + 2) \div 153
      d == doy - (153 * mp + 2) \div 5 + 1
      m == IF mp < 10 THEN mp + 3 ELSE mp - 9
      y == yoe + era * 400 + (IF m <= 2 THEN 1 ELSE 0)
  IN [y |-> y, m |-> m, d |-> d]

Num2(s, i) == DigitVal(s[i]) * 10 + DigitVal(s[i + 1])

Num4(s, i) == Num2(s, i) * 100 + Num2(s, i + 2)

Pad2(n) == <<Digits[((n \div 10) % 10) + 1], Digits[(n % 10) + 1]>>

Pad4(n) == Pad2(n \div 100) \o Pad2(n % 100)

\* Date.parse(`${date}T${time}Z`) for a date of the shape YYYY-MM-DD and a
\* time of the shape HH:MM:SS; NaN (Null) when a field is out of range.  A
\* day of 01..31 that lies beyond the end of its month is taken as that many
\* days from the first of the month, so 2024-02-30 is 2024-03-01.
DateParse(date, time) ==
  LET y == Num4(date, 1)
      m == Num2(date, 6)
      d == Num2(date, 9)
      hh == Num2(time, 1)
      mm == Num2(time, 4)
      ss == Num2(time, 7)
      okDate == m \in 1..12 /\ d >= 1 /\ d <= 31
      okTime == \/ (hh <= 23 /\ mm <= 59 /\ ss <= 59)
                \/ (hh = 24 /\ mm = 0 /\ ss = 0)
  IN IF okDate /\ okTime
     THEN Some(DaysFromCivil(y, m, d) * msPerDay + hh * 3600 + mm * 60 + ss)
     ELSE Null

Midnight == <<"0", "0", ":", "0", "0", ":", "0", "0">>

\* Date.parse(`${date}T00:00:00Z`)
dateStartUtcMs(date) == DateParse(date, Midnight)

\* new Date(timestampMs).toISOString().slice(0, 10)
formatUtcDate(timestampMs) ==
  LET c == CivilFromDays(timestampMs \div msPerDay)
  IN Pad4(c.y) \o <<"-">> \o Pad2(c.m) \o <<"-">> \o Pad2(c.d)

\* new Date(t).toISOString() for an instant with no millisecond part.
toISOString(t) ==
  LET s == t % msPerDay
  IN formatUtcDate(t) \o <<"T">> \o Pad2(s \div 3600) \o <<":">>
       \o Pad2((s \div 60) % 60) \o <<":">> \o Pad2(s % 60)
       \o <<".", "0", "0", "0", "Z">>

----------------------------------------------------------------------------
(* Maps *)

EmptyMap == [k \in {} |-> 0]

MapHas(m, k) == k \in DOMAIN m

\* m.get(k): undefined (Null) when the key is absent.
MapGet(m, k) == IF k \in DOMAIN m THEN Some(m[k]) ELSE Null

\* m.set(k, v)
MapSet(m, k, v) == [x \in (DOMAIN m) \cup {k} |-> IF x = k THEN v ELSE m[x]]

----------------------------------------------------------------------------
(* scripts/aggregate.ts *)

LAUNCHER_MIN_DATE == <<"2", "0", "2", "4", "-", "0", "7", "-", "0", "3">>

MAX_INTERPOLATION_GAP_HOURS == 48

\* readFileSync(path).split(/\r?\n/).map((line) => line.trim()).filter(Boolean)
ReadLines(file) ==
  LET trimmed == [i \in 1..Len(file.lines) |-> Trim(file.lines[i])]
      NonEmpty(l) == Len(l) > 0
  IN SelectSeq(trimmed, NonEmpty)

\* The body of the loop of parseCsvRows: the row pushed for a line, or Null
\* when the line is skipped.
CsvRowOf(line) ==
  LET columns == SplitColumns(line)
      rawDate == Column(columns, 2)
      rawPlayers == Column(columns, 3)
  IN IF Falsy(rawDate) \/ Falsy(rawPlayers) THEN Null
     ELSE LET players == ParseInt(Val(rawPlayers))
          IN IF IsNull(players) THEN Null
             ELSE IF ~MatchesDate(Val(rawDate)) THEN Null
             ELSE Some([date |-> Val(rawDate), players |-> Val(players)])

RECURSIVE CsvRowsFrom(_, _)
CsvRowsFrom(lines, i) ==
  IF i > Len(lines) THEN <<>>
  ELSE CsvRowOf(lines[i]) \o CsvRowsFrom(lines, i + 1)

parseCsvRows(file) ==
  IF ~file.exists THEN <<>> ELSE CsvRowsFrom(ReadLines(file), 1)

RECURSIVE AggregateMaxFrom(_, _, _)
AggregateMaxFrom(rows, i, daily) ==
  IF i > Len(rows) THEN daily
  ELSE LET row == rows[i]
           existing == MapGet(daily, row.date)
       IN IF IsNull(existing) \/ row.players > Val(existing)
          THEN AggregateMaxFrom(rows, i + 1, MapSet(daily, row.date, row.players))
          ELSE AggregateMaxFrom(rows, i + 1, daily)

\* A slip: no comparison, the last row of a date wins.
aggregateLastByDate(rows) ==
  [date \in {rows[i].date : i \in 1..Len(rows)} |->
     LET last == CHOOSE i \in 1..Len(rows) :
                   /\ rows[i].date = date
                   /\ \A j \in 1..Len(rows) : rows[j].date = date => j <= i
     IN rows[last].players]

\* A slip: the first row of a date is kept.
aggregateFirstByDate(rows) ==
  [date \in {rows[i].date : i \in 1..Len(rows)} |->
     LET first == CHOOSE i \in 1..Len(rows) :
                    /\ rows[i].date = date
                    /\ \A j \in 1..Len(rows) : rows[j].date = date => i <= j
     IN rows[first].players]

aggregateMaxByDate(rows) == AggregateMaxFrom(rows, 1, EmptyMap)

\* The body of the loop of parseLauncherRows.
LauncherRowOf(line) ==
  LET columns == SplitColumns(line)
      rawTime == Column(columns, 1)
      rawDate == Column(columns, 2)
      rawViews == Column(columns, 3)
  IN IF Falsy(rawTime) \/ Falsy(rawDate) \/ Falsy(rawViews) THEN Null
     ELSE IF ~MatchesTime(Val(rawTime)) \/ ~MatchesDate(Val(rawDate)) THEN Null
     ELSE LET views == ParseInt(Val(rawViews))
          IN IF IsNull(views) \/ Val(views) < 0 THEN Null
             ELSE Some([time |-> Val(rawTime), date |-> Val(rawDate),
                        views |-> Val(views)])

RECURSIVE LauncherRowsFrom(_, _)
LauncherRowsFrom(lines, i) ==
  IF i > Len(lines) THEN <<>>
  ELSE LauncherRowOf(lines[i]) \o LauncherRowsFrom(lines, i + 1)

parseLauncherRows(file) ==
  IF ~file.exists THEN <<>> ELSE LauncherRowsFrom(ReadLines(file), 1)

\* The loop of normalizeLauncherPoints: timestamp -> largest views.
RECURSIVE ByTimestampFrom(_, _, _)
ByTimestampFrom(rows, i, byTimestamp) ==
  IF i > Len(rows) THEN byTimestamp
  ELSE LET row == rows[i]
       IN IF StrLess(row.date, LAUNCHER_MIN_DATE)
          THEN ByTimestampFrom(rows, i + 1, byTimestamp)
          ELSE LET timestampMs == DateParse(row.date, row.time)
               IN IF IsNull(timestampMs)
                  THEN ByTimestampFrom(rows, i + 1, byTimestamp)
                  ELSE LET existing == MapGet(byTimestamp, Val(timestampMs))
                       IN IF IsNull(existing) \/ row.views > Val(existing)
                          THEN ByTimestampFrom(rows, i + 1,
                                 MapSet(byTimestamp, Val(timestampMs), row.views))
                          ELSE ByTimestampFrom(rows, i + 1, byTimestamp)

\* entries.sort((a, b) => a.timestampMs - b.timestampMs)
RECURSIVE SortPoints(_)
SortPoints(byTimestamp) ==
  IF DOMAIN byTimestamp = {} THEN <<>>
  ELSE LET t == CHOOSE x \in DOMAIN byTimestamp :
                  \A y \in DOMAIN byTimestamp : x <= y
           rest == [x \in (DOMAIN byTimestamp) \ {t} |-> byTimestamp[x]]
       IN <<[timestampMs |-> t, views |-> byTimestamp[t]]>> \o SortPoints(rest)

\* A slip: a later row of the same instant replaces the earlier one.
RECURSIVE ByTimestampLastFrom(_, _, _)
ByTimestampLastFrom(rows, i, byTimestamp) ==
  IF i > Len(rows) THEN byTimestamp
  ELSE LET row == rows[i]
           timestampMs == DateParse(row.date, row.time)
       IN IF StrLess(row.date, LAUNCHER_MIN_DATE) \/ IsNull(timestampMs)
          THEN ByTimestampLastFrom(rows, i + 1, byTimestamp)
          ELSE ByTimestampLastFrom(rows, i + 1,
                 MapSet(byTimestamp, Val(timestampMs), row.views))

normalizeLastWins(rows) == SortPoints(ByTimestampLastFrom(rows, 1, EmptyMap))

normalizeLauncherPoints(rows) ==
  SortPoints(ByTimestampFrom(rows, 1, EmptyMap))

----------------------------------------------------------------------------
(* Exact fractions, for stating what a value is in exact arithmetic *)

Abs(n) == IF n < 0 THEN -n ELSE n

RECURSIVE Gcd(_, _)
Gcd(a, b) == IF b = 0 THEN a ELSE Gcd(b, a % b)

\* n / d with d > 0, in lowest terms.
Frac(n, d) ==
  LET g == Gcd(Abs(n), d)
  IN [n |-> n \div g, d |-> d \div g]

----------------------------------------------------------------------------
(* The Number values of the program: IEEE 754 binary64 *)

\* A finite double is [neg, mag]: a sign and a magnitude of nine digits of
\* base 2^12, the most significant first.  The first three digits are the
\* integer part and the last six the fraction, so the magnitude is the sum
\* of mag[j] * 4096^(3 - j).  Every double from 2^-19 up to 2^31 in
\* magnitude is held exactly, which covers the values the program computes
\* from counts, pixel distances and spans of at most 48 hours.
Limb == 2 ^ 12

MagOfInt(n) ==
  [j \in 1..9 |-> IF j = 1 THEN (n \div (Limb * Limb)) % Limb
                  ELSE IF j = 2 THEN (n \div Limb) % Limb
                  ELSE IF j = 3 THEN n % Limb
                  ELSE 0]

MagZero == MagOfInt(0)

\* The integer part of a magnitude.
MagInt(a) == (a[1] * Limb + a[2]) * Limb + a[3]

RECURSIVE MagAddFrom(_, _, _, _)
MagAddFrom(a, b, j, carry) ==
  IF j = 0 THEN <<>>
  ELSE LET sum == a[j] + b[j] + carry
       IN Append(MagAddFrom(a, b, j - 1, sum \div Limb), sum % Limb)

MagAdd(a, b) == MagAddFrom(a, b, 9, 0)

RECURSIVE MagSubFrom(_, _, _, _)
MagSubFrom(a, b, j, borrow) ==
  IF j = 0 THEN <<>>
  ELSE LET diff == a[j] - b[j] - borrow
       IN IF diff < 0 THEN Append(MagSubFrom(a, b, j - 1, 1), diff + Limb)
          ELSE Append(MagSubFrom(a, b, j - 1, 0), diff)

\* a - b for a >= b.
MagSub(a, b) == MagSubFrom(a, b, 9, 0)

MagLess(a, b) ==
  \E j \in 1..9 : a[j] < b[j] /\ \A k \in 1..(j - 1) : a[k] = b[k]

RECURSIVE MagMulFrom(_, _, _, _)
MagMulFrom(a, k, j, carry) ==
  IF j = 0 THEN <<>>
  ELSE LET product == a[j] * k + carry
       IN Append(MagMulFrom(a, k, j - 1, product \div Limb), product % Limb)

\* a * 4096^n
MagShift(a, n) == [j \in 1..9 |-> IF j + n <= 9 THEN a[j + n] ELSE 0]

\* a * k for an integer 0 <= k < 2^31, exactly.
MagMulInt(a, k) ==
  MagAdd(MagAdd(MagMulFrom(a, k % Limb, 9, 0),
                MagShift(MagMulFrom(a, (k \div Limb) % Limb, 9, 0), 1)),
         MagShift(MagMulFrom(a, k \div (Limb * Limb), 9, 0), 2))

\* floor(a / q) and whether a remainder is left, for 0 < q < 2^19.
RECURSIVE MagDivFrom(_, _, _, _)
MagDivFrom(a, q, j, rem) ==
  IF j > 9 THEN <<>>
  ELSE LET cur == rem * Limb + a[j]
       IN <<cur \div q>> \o MagDivFrom(a, q, j + 1, cur % q)

RECURSIVE MagRemFrom(_, _, _, _)
MagRemFrom(a, q, j, rem) ==
  IF j > 9 THEN rem ELSE MagRemFrom(a, q, j + 1, (rem * Limb + a[j]) % q)

\* Bits are counted from 0 at the least significant bit of the last digit.
BitsOfLimb(v) == CHOOSE n \in 1..12 : 2 ^ (n - 1) <= v /\ v < 2 ^ n

BitLength(a) ==
  LET top == CHOOSE j \in 1..9 : a[j] # 0 /\ \A k \in 1..(j - 1) : a[k] = 0
  IN 12 * (9 - top) + BitsOfLimb(a[top])

BitAt(a, b) == (a[9 - (b \div 12)] \div (2 ^ (b % 12))) % 2

AnyBitBelow(a, n) ==
  \E j \in 1..9 :
    LET low == 12 * (9 - j)
    IN IF low + 12 <= n THEN a[j] # 0
       ELSE low < n /\ a[j] % (2 ^ (n - low)) # 0

ClearBitsBelow(a, n) ==
  [j \in 1..9 |->
     LET low == 12 * (9 - j)
     IN IF low + 12 <= n THEN 0
        ELSE IF low < n THEN a[j] - (a[j] % (2 ^ (n - low)))
        ELSE a[j]]

MagOfBit(n) == [j \in 1..9 |-> IF j = 9 - (n \div 12) THEN 2 ^ (n % 12) ELSE 0]

\* The rounding of every operation on doubles: the nearest value of 53
\* significant bits, a tie going to the even one.  sticky tells that the
\* exact value lies above the digits of a.
RoundToDouble(a, sticky) ==
  IF a = MagZero \/ BitLength(a) <= 53 THEN a
  ELSE LET drop == BitLength(a) - 53
           up == /\ BitAt(a, drop - 1) = 1
                 /\ (sticky \/ AnyBitBelow(a, drop - 1) \/ BitAt(a, drop) = 1)
           kept == ClearBitsBelow(a, drop)
       IN IF up THEN MagAdd(kept, MagOfBit(drop)) ELSE kept

Double(neg, mag) == [neg |-> neg /\ mag # MagZero, mag |-> mag]

\* The double of an integer below 2^31 in magnitude.
DoubleOf(n) == Double(n < 0, MagOfInt(Abs(n)))

\* p / q on two integers, q > 0.
DoubleDiv(p, q) ==
  LET g == Gcd(Abs(p), q)
      a == MagOfInt(Abs(p) \div g)
      d == q \div g
  IN Double(p < 0, RoundToDouble(MagDivFrom(a, d, 1, 0),
                                  MagRemFrom(a, d, 1, 0) # 0))

\* k * x for an integer k.
DoubleMulInt(k, x) ==
  Double((k < 0) # x.neg,
         RoundToDouble(MagMulInt(x.mag, Abs(k)), FALSE))

DoubleAdd(x, y) ==
  IF x.neg = y.neg THEN Double(x.neg, RoundToDouble(MagAdd(x.mag, y.mag), FALSE))
  ELSE IF MagLess(x.mag, y.mag)
       THEN Double(y.neg, RoundToDouble(MagSub(y.mag, x.mag), FALSE))
  ELSE Double(x.neg, RoundToDouble(MagSub(x.mag, y.mag), FALSE))

DoubleSub(x, y) == DoubleAdd(x, Double(~y.neg, y.mag))

\* x < y
DoubleLess(x, y) ==
  IF x.neg # y.neg THEN x.neg
  ELSE IF x.neg THEN MagLess(y.mag, x.mag)
  ELSE MagLess(x.mag, y.mag)

\* Math.round(x) of a double: the nearest integer, a half going up.
MathRoundOf(x) ==
  LET half == x.mag[4] >= Limb \div 2
      above == \/ x.mag[4] > Limb \div 2
               \/ (x.mag[4] = Limb \div 2 /\ \E j \in 5..9 : x.mag[j] # 0)
  IN IF x.neg THEN -(MagInt(x.mag) + (IF above THEN 1 ELSE 0))
     ELSE MagInt(x.mag) + (IF half THEN 1 ELSE 0)

\* points[i] with the program's 0-based index; undefined (Null) out of range.
PointAt(points, i) ==
  IF i >= 0 /\ i < Len(points) THEN Some(points[i + 1]) ELSE Null

\* A slip: the search ends on the outermost pair, not on the adjacent one.
BinarySearchOutermost(points, targetTimestampMs, low, high) ==
  IF \E i \in 1..Len(points) : points[i].timestampMs = targetTimestampMs
  THEN [hit |-> Some(points[CHOOSE i \in 1..Len(points) :
                              points[i].timestampMs = targetTimestampMs].views),
        low |-> low, high |-> high]
  ELSE [hit |-> Null, low |-> high, high |-> low]

\* The while loop of interpolateLauncherViewsAt.
RECURSIVE BinarySearch(_, _, _, _)
BinarySearch(points, targetTimestampMs, low, high) ==
  IF low > high THEN [hit |-> Null, low |-> low, high |-> high]
  ELSE LET mid == (low + high) \div 2
           point == PointAt(points, mid)
       IN IF IsNull(point) THEN [hit |-> Null, low |-> low, high |-> high]
          ELSE IF Val(point).timestampMs = targetTimestampMs
               THEN [hit |-> Some(Val(point).views), low |-> low, high |-> high]
          ELSE IF Val(point).timestampMs < targetTimestampMs
               THEN BinarySearch(points, targetTimestampMs, mid + 1, high)
          ELSE BinarySearch(points, targetTimestampMs, low, mid - 1)

\* A slip: the gap in minutes, not hours.
maxGapMsOfMinutes == MAX_INTERPOLATION_GAP_HOURS * 60

\* MAX_INTERPOLATION_GAP_HOURS * 60 * 60 * 1000 ms, in seconds.
maxGapMs == MAX_INTERPOLATION_GAP_HOURS * 60 * 60

\* A slip: no guard on a decreasing pair.
InterpolateBetweenUnguarded(previous, next, targetTimestampMs) ==
  IF IsNull(previous) \/ IsNull(next) THEN Null
  ELSE LET spanMs == Val(next).timestampMs - Val(previous).timestampMs
           spanViews == Val(next).views - Val(previous).views
       IN IF spanMs <= 0 THEN Null
          ELSE IF spanMs > maxGapMs THEN Null
          ELSE LET ratio == DoubleDiv(targetTimestampMs - Val(previous).timestampMs,
                                      spanMs)
               IN Some(DoubleAdd(DoubleOf(Val(previous).views),
                                 DoubleMulInt(spanViews, ratio)))

\* The tail of interpolateLauncherViewsAt: the guards on the bracketing pair
\* and the linear interpolation between its two samples.
InterpolateBetween(previous, next, targetTimestampMs) ==
  IF IsNull(previous) \/ IsNull(next) THEN Null
  ELSE LET spanMs == Val(next).timestampMs - Val(previous).timestampMs
           spanViews == Val(next).views - Val(previous).views
       IN IF spanMs <= 0 THEN Null
          ELSE IF spanMs > maxGapMs THEN Null
          ELSE IF spanViews < 0 THEN Null
          ELSE LET ratio == DoubleDiv(targetTimestampMs - Val(previous).timestampMs,
                                      spanMs)
               IN Some(DoubleAdd(DoubleOf(Val(previous).views),
                                 DoubleMulInt(spanViews, ratio)))

\* A slip: a target outside the samples takes the nearest sample's value.
interpolateClamped(points, targetTimestampMs) ==
  IF Len(points) = 0 THEN Null
  ELSE LET first == points[1]
           last == points[Len(points)]
       IN IF targetTimestampMs < first.timestampMs THEN Some(DoubleOf(first.views))
          ELSE IF targetTimestampMs > last.timestampMs THEN Some(DoubleOf(last.views))
          ELSE LET found == BinarySearch(points, targetTimestampMs, 0, Len(points) - 1)
               IN IF ~IsNull(found.hit) THEN Some(DoubleOf(Val(found.hit)))
                  ELSE InterpolateBetween(PointAt(points, found.high),
                                          PointAt(points, found.low),
                                          targetTimestampMs)

interpolateLauncherViewsAt(points, targetTimestampMs) ==
  IF Len(points) = 0 THEN Null
  ELSE LET first == points[1]
           last == points[Len(points)]
       IN IF targetTimestampMs < first.timestampMs
               \/ targetTimestampMs > last.timestampMs
          THEN Null
          ELSE LET found == BinarySearch(points, targetTimestampMs, 0, Len(points) - 1)
               IN IF ~IsNull(found.hit) THEN Some(DoubleOf(Val(found.hit)))
                  ELSE InterpolateBetween(PointAt(points, found.high),
                                          PointAt(points, found.low),
                                          targetTimestampMs)

\* A slip: a negative difference is stored as it is.
DailyLoadSigned(points, dayStartMs) ==
  LET dayEndMs == dayStartMs + msPerDay
      startViews == interpolateLauncherViewsAt(points, dayStartMs)
      endViews == interpolateLauncherViewsAt(points, dayEndMs)
  IN IF IsNull(startViews) \/ IsNull(endViews) THEN Null
     ELSE Some(MathRoundOf(DoubleSub(Val(endViews), Val(startViews))))

\* The value aggregateLauncherLoads stores for the day that starts at
\* dayStartMs.
DailyLoad(points, dayStartMs) ==
  LET dayEndMs == dayStartMs + msPerDay
      startViews == interpolateLauncherViewsAt(points, dayStartMs)
      endViews == interpolateLauncherViewsAt(points, dayEndMs)
  IN IF IsNull(startViews) \/ IsNull(endViews) THEN Null
     ELSE LET delta == DoubleSub(Val(endViews), Val(startViews))
          IN IF ~delta.neg THEN Some(MathRoundOf(delta)) ELSE Null

\* The while loop of aggregateLauncherLoads: one entry for every day that
\* starts at dayStartMs or a whole number of days later and ends at
\* lastTimestampMs or before.  The days are distinct, so the order in which
\* the loop sets them does not show in the map.
DailyLoadsFrom(points, dayStartMs, lastTimestampMs, dailyLoads) ==
  LET days == IF dayStartMs + msPerDay <= lastTimestampMs
              THEN (lastTimestampMs - dayStartMs) \div msPerDay
              ELSE 0
      startOf == [date \in {formatUtcDate(dayStartMs + k * msPerDay) : k \in 0..(days - 1)}
                    |-> Val(dateStartUtcMs(date))]
  IN [date \in (DOMAIN dailyLoads) \cup (DOMAIN startOf) |->
        IF date \in DOMAIN startOf THEN DailyLoad(points, startOf[date])
        ELSE dailyLoads[date]]

\* A slip: the days start at the first sample's day, not at the cutoff.
launcherLoadsFromFirst(points) ==
  IF Len(points) < 2 THEN EmptyMap
  ELSE DailyLoadsFrom(points,
         (points[1].timestampMs \div msPerDay) * msPerDay,
         points[Len(points)].timestampMs, EmptyMap)

launcherLoadsOfPoints(points) ==
  IF Len(points) < 2 THEN EmptyMap
  ELSE DailyLoadsFrom(points, Val(dateStartUtcMs(LAUNCHER_MIN_DATE)),
         points[Len(points)].timestampMs, EmptyMap)

aggregateLauncherLoads(rows) == launcherLoadsOfPoints(normalizeLauncherPoints(rows))

\* Array.from(dates).sort((a, b) => a.localeCompare(b)): every date at the
\* place given by the number of dates that compare before it.
SortDates(dates) ==
  LET ranked == {<<Cardinality({b \in dates : localeCompare(b, a) < 0}), a>> :
                   a \in dates}
  IN [i \in 1..Cardinality(dates) |-> (CHOOSE r \in ranked : r[1] = i - 1)[2]]

\* A slip: the dates of the launcher are left out of the union.
mergeDailyOfPlayers(realmeyeDaily, realmstockDaily, launcherDailyLoads) ==
  LET dates == (DOMAIN realmeyeDaily) \cup (DOMAIN realmstockDaily)
      sorted == SortDates(dates)
  IN [i \in 1..Len(sorted) |->
        LET date == sorted[i]
        IN [date |-> date,
            realmeye_max |-> MapGet(realmeyeDaily, date),
            realmstock_max |-> MapGet(realmstockDaily, date),
            launcher_loads |-> IF MapHas(launcherDailyLoads, date)
                               THEN launcherDailyLoads[date] ELSE Null]]

\* A slip: x || null in the place of x ?? null, which loses the value 0.
OrNull(o) == IF ~IsNull(o) /\ Val(o) = 0 THEN Null ELSE o

mergeDailyFalsy(realmeyeDaily, realmstockDaily, launcherDailyLoads) ==
  LET dates == (DOMAIN realmeyeDaily) \cup (DOMAIN realmstockDaily)
                 \cup (DOMAIN launcherDailyLoads)
      sorted == SortDates(dates)
  IN [i \in 1..Len(sorted) |->
        LET date == sorted[i]
        IN [date |-> date,
            realmeye_max |-> OrNull(MapGet(realmeyeDaily, date)),
            realmstock_max |-> OrNull(MapGet(realmstockDaily, date)),
            launcher_loads |-> IF MapHas(launcherDailyLoads, date)
                               THEN OrNull(launcherDailyLoads[date]) ELSE Null]]

mergeDaily(realmeyeDaily, realmstockDaily, launcherDailyLoads) ==
  LET dates == (DOMAIN realmeyeDaily) \cup (DOMAIN realmstockDaily)
                 \cup (DOMAIN launcherDailyLoads)
      sorted == SortDates(dates)
  IN [i \in 1..Len(sorted) |->
        LET date == sorted[i]
        IN [date |-> date,
            realmeye_max |-> MapGet(realmeyeDaily, date),
            realmstock_max |-> MapGet(realmstockDaily, date),
            launcher_loads |-> IF MapHas(launcherDailyLoads, date)
                               THEN launcherDailyLoads[date] ELSE Null]]

\* date.replace(/-/g, "")
compactDate(date) ==
  LET NotHyphen(ch) == ch # "-"
  IN SelectSeq(date, NotHyphen)

\* A slip: the timestamp is taken from the newest point instead of the
\* argument.
toCompactDailyStamped(points, updatedAt) ==
  [u |-> IF Len(points) = 0 THEN updatedAt ELSE points[Len(points)].date,
   d |-> [i \in 1..Len(points) |-> compactDate(points[i].date)],
   a |-> [i \in 1..Len(points) |-> points[i].realmeye_max],
   c |-> [i \in 1..Len(points) |-> points[i].realmstock_max],
   f |-> [i \in 1..Len(points) |-> points[i].launcher_loads]]

toCompactDaily(points, updatedAt) ==
  [u |-> updatedAt,
   d |-> [i \in 1..Len(points) |-> compactDate(points[i].date)],
   a |-> [i \in 1..Len(points) |-> points[i].realmeye_max],
   c |-> [i \in 1..Len(points) |-> points[i].realmstock_max],
   f |-> [i \in 1..Len(points) |-> points[i].launcher_loads]]

----------------------------------------------------------------------------
(* src/utils/decodeDailyData.ts and the decoding step of loadDailyData *)

\* The source of decodeDailyData is not among the files; the two
\* definitions below follow the specification (4.4, Decode: "the exact
\* inverse", "reconstruct the ordered DailyPoint sequence from the columnar
\* arrays") and the types CompactDaily and DailyPoint of src/types.ts.
\* Written down this way the decoder undoes toCompactDaily by definition,
\* so the round trip of the codec (C2) is not stated as a property: it
\* would say nothing of the decoder of the repository.

\* YYYYMMDD -> YYYY-MM-DD.
expandDate(compact) ==
  SubSeq(compact, 1, 4) \o <<"-">> \o SubSeq(compact, 5, 6) \o <<"-">>
    \o SubSeq(compact, 7, Len(compact))

decodeDailyData(compact) ==
  [i \in 1..Len(compact.d) |->
     [date |-> expandDate(compact.d[i]),
      realmeye_max |-> compact.a[i],
      realmstock_max |-> compact.c[i],
      launcher_loads |-> compact.f[i]]]

\* Insertion of a point behind every point that does not sort after it:
\* Array.prototype.sort is stable.
RECURSIVE InsertByDate(_, _)
InsertByDate(sorted, point) ==
  IF Len(sorted) = 0 THEN <<point>>
  ELSE IF localeCompare(Head(sorted).date, point.date) <= 0
       THEN <<Head(sorted)>> \o InsertByDate(Tail(sorted), point)
       ELSE <<point>> \o sorted

RECURSIVE SortByDateFrom(_, _, _)
SortByDateFrom(points, i, sorted) ==
  IF i > Len(points) THEN sorted
  ELSE SortByDateFrom(points, i + 1, InsertByDate(sorted, points[i]))

\* decodeDailyData(compactData).sort((a, b) => a.date.localeCompare(b.date))
loadDailyData(compactData) == SortByDateFrom(decodeDailyData(compactData), 1, <<>>)

----------------------------------------------------------------------------
(* src/utils/metrics.ts *)

MAX_DELTA_GAP_DAYS == 7

\* 24 * 60 * 60 * 1000, in the unit of the instants of this module.
dayMs == 86400

\* The loop of latestValue, from the 0-based index down.
RECURSIVE LatestValueFrom(_, _)
LatestValueFrom(points, index) ==
  IF index < 0 THEN Null
  ELSE IF ~IsNull(points[index + 1].realmeye_max)
       THEN points[index + 1].realmeye_max
       ELSE LatestValueFrom(points, index - 1)

\* A slip: the scan runs from the oldest day forward.
RECURSIVE EarliestValueFrom(_, _)
EarliestValueFrom(points, i) ==
  IF i > Len(points) THEN Null
  ELSE IF ~IsNull(points[i].realmeye_max) THEN points[i].realmeye_max
       ELSE EarliestValueFrom(points, i + 1)

earliestValue(points) == EarliestValueFrom(points, 1)

latestValue(points) == LatestValueFrom(points, Len(points) - 1)

\* A slip: the fallback is the date of the last row, not an ISO instant.
fallbackLastDate(points) ==
  IF Len(points) = 0 THEN Null ELSE Some(points[Len(points)].date)

resolveFallbackLastUpdatedAt(points) ==
  IF Len(points) = 0 THEN Null
  ELSE LET latestDate == points[Len(points)].date
           fallbackTimestamp == DateParse(latestDate, Midnight)
       IN IF ~IsNull(fallbackTimestamp)
          THEN Some(toISOString(Val(fallbackTimestamp)))
          ELSE Null

\* A slip: the extremes start at 0 and not at null.
NoExtremeZero == [value |-> Some(0), date |-> Null]

NoExtreme == [value |-> Null, date |-> Null]

\* The loop of buildStats over the points from the i-th on.
RECURSIVE ExtremesFrom(_, _, _, _)
ExtremesFrom(points, i, allTimePeak, allTimeLow) ==
  IF i > Len(points) THEN [allTimePeak |-> allTimePeak, allTimeLow |-> allTimeLow]
  ELSE LET point == points[i]
       IN IF IsNull(point.realmeye_max)
          THEN ExtremesFrom(points, i + 1, allTimePeak, allTimeLow)
          ELSE LET v == Val(point.realmeye_max)
                   here == [value |-> Some(v), date |-> Some(point.date)]
                   peak == IF IsNull(allTimePeak.value) \/ v > Val(allTimePeak.value)
                           THEN here ELSE allTimePeak
                   low == IF IsNull(allTimeLow.value) \/ v < Val(allTimeLow.value)
                          THEN here ELSE allTimeLow
               IN ExtremesFrom(points, i + 1, peak, low)

\* A slip: >= and <= in the place of > and <, so that a tie moves the date.
RECURSIVE ExtremesLastFrom(_, _, _, _)
ExtremesLastFrom(points, i, allTimePeak, allTimeLow) ==
  IF i > Len(points) THEN [allTimePeak |-> allTimePeak, allTimeLow |-> allTimeLow]
  ELSE LET point == points[i]
       IN IF IsNull(point.realmeye_max)
          THEN ExtremesLastFrom(points, i + 1, allTimePeak, allTimeLow)
          ELSE LET v == Val(point.realmeye_max)
                   here == [value |-> Some(v), date |-> Some(point.date)]
                   peak == IF IsNull(allTimePeak.value) \/ v >= Val(allTimePeak.value)
                           THEN here ELSE allTimePeak
                   low == IF IsNull(allTimeLow.value) \/ v <= Val(allTimeLow.value)
                          THEN here ELSE allTimeLow
               IN ExtremesLastFrom(points, i + 1, peak, low)

extremesLast(points) == ExtremesLastFrom(points, 1, NoExtreme, NoExtreme)

extremes(points) == ExtremesFrom(points, 1, NoExtreme, NoExtreme)

\* A slip: the fallback wins over the supplied timestamp.
lastUpdatedFallbackFirst(points, lastUpdatedAt) ==
  IF ~IsNull(resolveFallbackLastUpdatedAt(points))
  THEN resolveFallbackLastUpdatedAt(points)
  ELSE lastUpdatedAt

\* lastUpdatedAt ?? resolveFallbackLastUpdatedAt(points)
lastUpdatedOf(points, lastUpdatedAt) ==
  IF ~IsNull(lastUpdatedAt) THEN lastUpdatedAt
  ELSE resolveFallbackLastUpdatedAt(points)

buildStats(points, lastUpdatedAt) ==
  [currentRealmeye |-> latestValue(points),
   allTimePeak |-> extremes(points).allTimePeak,
   allTimeLow |-> extremes(points).allTimeLow,
   lastUpdatedAt |-> lastUpdatedOf(points, lastUpdatedAt)]

\* A slip: the difference is taken the wrong way round.
DeltaBetweenReversed(currentPoint, previousPoint, pick) ==
  LET currentDateMs == DateParse(currentPoint.date, Midnight)
      previousDateMs == DateParse(previousPoint.date, Midnight)
  IN IF IsNull(currentDateMs) \/ IsNull(previousDateMs) THEN Null
     ELSE LET dayGap == MathRoundOf(DoubleDiv(Val(currentDateMs) - Val(previousDateMs), dayMs))
              totalDelta == Val(previousPoint[pick]) - Val(currentPoint[pick])
          IN IF dayGap <= 0 THEN Null
             ELSE IF dayGap = 1 THEN Some(totalDelta)
             ELSE IF dayGap > MAX_DELTA_GAP_DAYS THEN Null
             ELSE Some(MathRoundOf(DoubleDiv(totalDelta, dayGap)))

\* A slip: the change over a gap of several days is not divided by the gap,
\* and a gap of exactly MAX_DELTA_GAP_DAYS days is refused.
DeltaBetweenTotal(currentPoint, previousPoint, pick) ==
  LET currentDateMs == DateParse(currentPoint.date, Midnight)
      previousDateMs == DateParse(previousPoint.date, Midnight)
  IN IF IsNull(currentDateMs) \/ IsNull(previousDateMs) THEN Null
     ELSE LET dayGap == MathRoundOf(DoubleDiv(Val(currentDateMs) - Val(previousDateMs), dayMs))
              totalDelta == Val(currentPoint[pick]) - Val(previousPoint[pick])
          IN IF dayGap <= 0 THEN Null
             ELSE IF dayGap = 1 THEN Some(totalDelta)
             ELSE IF dayGap >= MAX_DELTA_GAP_DAYS THEN Null
             ELSE Some(totalDelta)

\* The tail of computeDelta once the nearest earlier point with a value is
\* found.
DeltaBetween(currentPoint, previousPoint, pick) ==
  LET currentDateMs == DateParse(currentPoint.date, Midnight)
      previousDateMs == DateParse(previousPoint.date, Midnight)
  IN IF IsNull(currentDateMs) \/ IsNull(previousDateMs) THEN Null
     ELSE LET dayGap == MathRoundOf(DoubleDiv(Val(currentDateMs) - Val(previousDateMs), dayMs))
              totalDelta == Val(currentPoint[pick]) - Val(previousPoint[pick])
          IN IF dayGap <= 0 THEN Null
             ELSE IF dayGap = 1 THEN Some(totalDelta)
             ELSE IF dayGap > MAX_DELTA_GAP_DAYS THEN Null
             ELSE Some(MathRoundOf(DoubleDiv(totalDelta, dayGap)))

\* The while loop of computeDelta, previousIndex 0-based.
RECURSIVE DeltaFrom(_, _, _, _)
DeltaFrom(points, index, previousIndex, pick) ==
  IF previousIndex < 0 THEN Null
  ELSE IF IsNull(points[previousIndex + 1][pick])
       THEN DeltaFrom(points, index, previousIndex - 1, pick)
       ELSE DeltaBetween(points[index + 1], points[previousIndex + 1], pick)

computeDelta(points, index, pick) ==
  IF index < 0 \/ index >= Len(points) THEN Null
  ELSE IF IsNull(points[index + 1][pick]) THEN Null
       ELSE DeltaFrom(points, index, index - 1, pick)

buildTableRows(points) ==
  [i \in 1..Len(points) |->
     [date |-> points[i].date,
      realmeye_max |-> points[i].realmeye_max,
      realmstock_max |-> points[i].realmstock_max,
      launcher_loads |-> points[i].launcher_loads,
      realmeye_delta |-> computeDelta(points, i - 1, "realmeye_max"),
      realmstock_delta |-> computeDelta(points, i - 1, "realmstock_max"),
      launcher_delta |-> computeDelta(points, i - 1, "launcher_loads")]]

----------------------------------------------------------------------------
(* Inputs *)

DateStr(y, m, d) == Pad4(y) \o <<"-">> \o Pad2(m) \o <<"-">> \o Pad2(d)

TimeStr(h, m, sec) == Pad2(h) \o <<":">> \o Pad2(m) \o <<":">> \o Pad2(sec)

RECURSIVE NumStr(_)
NumStr(n) ==
  IF n < 10 THEN <<Digits[n + 1]>>
  ELSE NumStr(n \div 10) \o <<Digits[(n % 10) + 1]>>

Line(time, date, value) == time \o <<",">> \o date \o <<",">> \o value

Noon == TimeStr(12, 0, 0)

\* A day of July 2024.
Jul(d) == DateStr(2024, 7, d)

SeqUpTo(S, n) == UNION {[1..k -> S] : k \in 0..n}

NoFile == [exists |-> FALSE, lines |-> <<>>]

FileOf(lines) == [exists |-> TRUE, lines |-> lines]

\* The files of at most n lines drawn from L, and the missing file.
Files(L, n) == {NoFile} \cup {FileOf(ls) : ls \in SeqUpTo(L, n)}

\* Bounds.
MaxRunLines == 1

MaxCsvLines == 2

MaxLauncherLines == 2

MaxTicks == 1

ProbeDays == 4

MaxPoints == 3

\* Lines of a point-in-time file for the runs of the whole pipeline.
RunCsvLines ==
  {Line(Noon, Jul(3), NumStr(5)), Line(Noon, Jul(5), NumStr(0))}

\* Launcher files for the runs of the whole pipeline.
RunLauncherFiles ==
  {NoFile,
   FileOf(<<Line(Midnight, Jul(3), NumStr(1)), Line(Noon, Jul(4), NumStr(9))>>),
   FileOf(<<Line(Noon, Jul(4), NumStr(9)), Line(Noon, Jul(6), NumStr(20))>>),
   FileOf(<<Line(Midnight, Jul(3), NumStr(1)), Line(Noon, Jul(4), NumStr(1))>>)}

\* Well-formed and malformed lines, read by both parsers.
CsvLines ==
  {Line(Noon, Jul(3), NumStr(5)),
   Line(Noon, Jul(3), NumStr(9)),
   Line(Midnight, Jul(4), NumStr(0)),
   Line(Noon, Jul(4), <<"-">> \o NumStr(5)),
   Line(Noon, Jul(3), NumStr(7) \o <<"x">>),
   Line(Noon, Jul(4), <<"x">>),
   Line(Noon, <<"2", "0", "2", "4", "-", "7", "-", "0", "3">>, NumStr(5)),
   Noon \o <<",">> \o Jul(3),
   Line(<<>>, Jul(3), NumStr(4)),
   <<"\t">> \o Line(Noon \o <<" ">>, <<"\t">> \o Jul(5),
                     <<" ">> \o NumStr(3) \o <<"\r">>),
   Line(Noon, Jul(5), NumStr(6)) \o <<",">> \o NumStr(9),
   Line(Noon, DateStr(2024, 13, 1), NumStr(5)),
   <<" ">>}

\* Lines of the launcher file for the interpolation.
LauncherLines ==
  {Line(Noon, Jul(2), NumStr(5)),
   Line(Midnight, Jul(3), NumStr(1)),
   Line(Noon, Jul(3), NumStr(4)),
   Line(Noon, Jul(3), NumStr(2)),
   Line(Midnight, Jul(4), NumStr(0)),
   Line(Noon, Jul(4), NumStr(9)),
   Line(Noon, Jul(5), NumStr(6)),
   Line(Noon, Jul(6), NumStr(20)),
   Line(Pad2(12) \o <<":">> \o Pad2(0), Jul(4), NumStr(7))}

\* HH:MM:SS
Clock(h, m, sec) == Pad2(h) \o <<":">> \o Pad2(m) \o <<":">> \o Pad2(sec)

\* Launcher files of three samples, in and out of order, one with a
\* repeated row, and one whose samples lie off the round hours, so that the
\* ratio of the interpolation is no finite binary fraction, and one with a
\* row dated on the 31st of a month of 30 days.
LauncherSeriesFiles ==
  {FileOf(<<Line(Midnight, Jul(3), NumStr(1)), Line(Noon, Jul(4), NumStr(9)),
            Line(Noon, Jul(5), NumStr(20))>>),
   FileOf(<<Line(Noon, Jul(5), NumStr(20)), Line(Midnight, Jul(3), NumStr(1)),
            Line(Noon, Jul(4), NumStr(9))>>),
   FileOf(<<Line(Noon, Jul(4), NumStr(9)), Line(Midnight, Jul(3), NumStr(1)),
            Line(Noon, Jul(4), NumStr(9)), Line(Noon, Jul(5), NumStr(20))>>),
   FileOf(<<Line(Clock(23, 21, 27), Jul(3), NumStr(0)),
            Line(Clock(0, 21, 25), Jul(4), NumStr(21)),
            Line(Midnight, Jul(5), NumStr(26))>>),
   FileOf(<<Line(Midnight, DateStr(2024, 9, 31), NumStr(4)),
            Line(Midnight, DateStr(2024, 10, 2), NumStr(8))>>)}

\* The fallback export of the RealmEye history.
FallbackFile == FileOf(<<Line(Noon, Jul(2), NumStr(3))>>)

\* The dates of the points handed to the metrics: gaps of 1 to 9 days, and
\* a date of no calendar day.
MetricDates ==
  {DateStr(2026, 1, 1), DateStr(2026, 1, 2), DateStr(2026, 1, 3),
   DateStr(2026, 1, 10), DateStr(2026, 13, 1)}

\* The values of one point: realmeye_max, realmstock_max, launcher_loads.
MetricFields ==
  {<<Some(100), Some(20), Null>>,
   <<Some(130), Null, Some(1000)>>,
   <<Some(110), Some(25), Some(1200)>>,
   <<Null, Null, Null>>}

MetricPoints ==
  {[date |-> date, realmeye_max |-> v[1], realmstock_max |-> v[2],
    launcher_loads |-> v[3]] : date \in MetricDates, v \in MetricFields}

\* Sequences in the order loadDailyData leaves them in: no date sorts
\* before the date of an earlier point.
MetricSequences ==
  {ps \in SeqUpTo(MetricPoints, MaxPoints) :
     \A i \in 1..(Len(ps) - 1) : localeCompare(ps[i].date, ps[i + 1].date) <= 0}

\* The instant of the first run.
ClockStart == Val(DateParse(Jul(10), Noon))

\* Instants at which the interpolation is probed: every twelve hours from
\* the day before the cutoff on.
ProbeInstants ==
  {Val(dateStartUtcMs(LAUNCHER_MIN_DATE)) + k * (msPerDay \div 2) :
     k \in -2..(2 * ProbeDays)}

----------------------------------------------------------------------------
(* The files run() of scripts/aggregate.ts reads *)

\* existsSync(REALMEYE_FILE) ? REALMEYE_FILE : REALMEYE_FALLBACK
realmeyeSourceOf(file, fallback) == IF file.exists THEN file ELSE fallback

\* A slip: the RealmStock rows fall back to the RealmEye export too.
realmstockSourceOrFallback(file) == IF file.exists THEN file ELSE FallbackFile

\* parseCsvRows(REALMSTOCK_FILE): no fallback.
realmstockSourceOf(file) == file

\* The merged dataset run() computes from the three files it reads.
mergedOf(realmeyeSource, realmstockSource, launcherSource) ==
  mergeDaily(aggregateMaxByDate(parseCsvRows(realmeyeSource)),
             aggregateMaxByDate(parseCsvRows(realmstockSource)),
             aggregateLauncherLoads(parseLauncherRows(launcherSource)))

----------------------------------------------------------------------------
(* scripts/scrape.ts *)

\* ensureDataFiles for one file: a missing file is created empty.
ensureDataFile(file) == IF file.exists THEN file ELSE FileOf(<<>>)

\* A slip: ensureDataFiles runs in a dry run too.
ensureInDryRunToo(file, dryRun) == ensureDataFile(file)

\* run() up to the first fetch, for one file: ensureDataFiles unless the run
\* is a dry run.
ensureUnlessDryRun(file, dryRun) ==
  IF dryRun THEN file ELSE ensureDataFile(file)

\* appendRow(file, players) at the instant now; nothing is written in a dry
\* run.
appendRow(file, players, now, dryRun) ==
  IF dryRun THEN file
  ELSE LET iso == toISOString(now)
           time == SubSeq(iso, 12, 19)
           date == SubSeq(iso, 1, 10)
       IN FileOf(file.lines \o <<Line(time, date, NumStr(players))>>)

\* A slip: no try/catch around a source, so that a failed fetch ends the
\* run.
pcAfterUncaught(next, result) == IF IsNull(result) THEN "done" ELSE next

\* The position of run() after the try/catch of a source: the next source,
\* whether the fetch threw or not.
pcAfter(next, result) == next

\* The state of a scrape run that has not started.
ScrapeIdle ==
  [pc |-> "idle", dryRun |-> FALSE, before |-> EmptyMap, attempted |-> {},
   results |-> EmptyMap, successCount |-> 0, warnings |-> 0]

\* The state of run() after the try/catch of a source whose fetch gave
\* result: Null when it threw, Some(count) when it returned.
AfterSource(run, source, next, result) ==
  [run EXCEPT !.pc = pcAfter(next, result),
              !.attempted = @ \cup {source},
              !.results = MapSet(@, source, result),
              !.successCount = IF IsNull(result) THEN @ ELSE @ + 1,
              !.warnings = IF IsNull(result) THEN @ + 1 ELSE @]

\* The file of a source after its try block.
FileAfter(file, result, now, dryRun) ==
  IF IsNull(result) THEN file ELSE appendRow(file, Val(result), now, dryRun)

----------------------------------------------------------------------------
(* src/hooks/useDailyData.ts: the requests of the hook *)

\* The retries the model follows.
MaxRequests == 3

\* The bodies a response can have: two datasets, the first with its days
\* out of order, and a text that is no JSON.
HookBodies ==
  {[u |-> toISOString(ClockStart),
    d |-> <<compactDate(DateStr(2026, 1, 2)), compactDate(DateStr(2026, 1, 1))>>,
    a |-> <<Some(2), Some(1)>>, c |-> <<Null, Some(5)>>, f |-> <<Null, Null>>],
   [u |-> toISOString(ClockStart),
    d |-> <<compactDate(DateStr(2026, 1, 3))>>,
    a |-> <<Some(3)>>, c |-> <<Null>>, f |-> <<Some(9)>>]}

\* How the promise of fetch() settles for a request that was not aborted:
\* it rejects, or it resolves with a response whose ok is false or true.
FetchOutcomes == {"rejected", "not ok", "ok"}

\* The message of the error thrown for a fetch outcome.
FetchMessage(outcome) ==
  IF outcome = "rejected" THEN "Failed to fetch"
  ELSE "Daily data request failed (500)."

\* What the body of a response turns out to be once it is read to its end:
\* a dataset, or a text response.json() cannot parse.
BodyOutcomes == {Some(body) : body \in HookBodies} \cup {Null}

JsonMessage == "Unexpected end of JSON input"

\* A request of the hook: where loadDailyData stands, whether the cleanup
\* of its effect has aborted its AbortController, the body once it was
\* read, and what the request came to.
\*   fetching: await fetch(...) is pending
\*   reading:  await response.json() is pending, the body is being read
\*   read:     the body was read to its end; the promise of json() is not
\*             settled yet
\*   done:     loadDailyData has returned
NewRequest ==
  [phase |-> "fetching", aborted |-> FALSE, body |-> Null, result |-> Null]

Failed(message) == Some([ok |-> FALSE, message |-> message, data |-> <<>>])

Loaded(points) == Some([ok |-> TRUE, message |-> "", data |-> points])

\* The state of the hook after the mount: the effect has started the first
\* request.
HookMounted ==
  [mounted |-> TRUE, isLoading |-> TRUE, error |-> Null, requestKey |-> 0,
   requests |-> <<NewRequest>>]

\* A state setter of the hook: React drops the update of a component that
\* is unmounted.
SetState(mounted, current, value) == IF mounted THEN value ELSE current

\* The cleanup of the effect: abortController.abort() of the request in
\* flight.
Cleanup(requests) ==
  [r \in 1..Len(requests) |->
     IF r = Len(requests) THEN [requests[r] EXCEPT !.aborted = TRUE]
     ELSE requests[r]]

\* The catch and the finally of loadDailyData for a thrown error.
AfterThrow(h, r, message) ==
  IF h.requests[r].aborted
  THEN [h EXCEPT !.requests[r].phase = "done"]
  ELSE [h EXCEPT !.requests[r].phase = "done",
                 !.requests[r].result = Failed(message),
                 !.error = SetState(h.mounted, @, Some(message)),
                 !.isLoading = SetState(h.mounted, @, FALSE)]

\* The finally of loadDailyData after setData.
AfterData(h, r, points) ==
  [h EXCEPT !.requests[r].phase = "done",
            !.requests[r].result = Loaded(points),
            !.isLoading = IF h.requests[r].aborted THEN @
                          ELSE SetState(h.mounted, @, FALSE)]

\* A slip-free variant for comparison: setData only when the request was
\* not aborted.
DataAfterGuarded(h, r, current, points) ==
  IF h.requests[r].aborted THEN current
  ELSE SetState(h.mounted, current, Some(points))

\* setData(decodedData): no test of the abort signal comes before it.
DataAfter(h, r, current, points) == SetState(h.mounted, current, Some(points))

----------------------------------------------------------------------------
(* src/components/SharedRangeSlider.tsx *)

\* dates[index] with the program's 0-based index; undefined (Null) out of
\* range.
DateAt(dates, index) ==
  IF index >= 0 /\ index < Len(dates) THEN Some(dates[index + 1]) ELSE Null

\* dates[index] ?? dates[fallback]
DateOr(dates, index, fallback) ==
  IF ~IsNull(DateAt(dates, index)) THEN DateAt(dates, index)
  ELSE DateAt(dates, fallback)

\* findStartIndex: the first date >= target, the last index when there is
\* none.
findStartIndex(dates, target) ==
  LET found == {i \in 0..(Len(dates) - 1) : ~StrLess(dates[i + 1], target)}
  IN IF found = {} THEN Len(dates) - 1
     ELSE CHOOSE i \in found : \A j \in found : i <= j

\* findEndIndex: the last date <= target, 0 when there is none.
findEndIndex(dates, target) ==
  LET found == {i \in 0..(Len(dates) - 1) : ~StrLess(target, dates[i + 1])}
  IN IF found = {} THEN 0
     ELSE CHOOSE i \in found : \A j \in found : j <= i

MathMin(a, b) == IF a <= b THEN a ELSE b

MathMax(a, b) == IF a >= b THEN a ELSE b

\* A slip: the end index is not kept behind the start index.
boundsUnordered(dates, range) ==
  IF Len(dates) <= 1 THEN [start |-> 0, end |-> 0]
  ELSE [start |-> MathMin(findStartIndex(dates, range.start), Len(dates) - 2),
        end |-> MathMin(Len(dates) - 1, findEndIndex(dates, range.end))]

\* The memo bounds, without the two percentages.
bounds(dates, range) ==
  IF Len(dates) <= 1 THEN [start |-> 0, end |-> 0]
  ELSE LET start == MathMin(findStartIndex(dates, range.start), Len(dates) - 2)
           end == MathMin(Len(dates) - 1,
                          MathMax(start + 1, findEndIndex(dates, range.end)))
       IN [start |-> start, end |-> end]

\* The range onStartChange hands to onChange.
onStartChange(dates, range, nextStartRaw) ==
  LET current == bounds(dates, range)
      nextStart == MathMin(nextStartRaw, current.end - 1)
  IN [start |-> Val(DateOr(dates, nextStart, 0)),
      end |-> Val(DateOr(dates, current.end, Len(dates) - 1))]

\* The range onEndChange hands to onChange.
onEndChange(dates, range, nextEndRaw) ==
  LET current == bounds(dates, range)
      nextEnd == MathMax(nextEndRaw, current.start + 1)
  IN [start |-> Val(DateOr(dates, current.start, 0)),
      end |-> Val(DateOr(dates, nextEnd, Len(dates) - 1))]

\* What onTrackPointerDown keeps for the moves of the drag.
dragOf(dates, range, clientX, clientWidth) ==
  LET current == bounds(dates, range)
      totalSteps == Len(dates) - 1
      currentWindow == current.end - current.start
  IN [totalSteps |-> totalSteps,
      currentWindow |-> currentWindow,
      maxStart |-> totalSteps - currentWindow,
      startX |-> clientX,
      baseStart |-> current.start,
      width |-> MathMax(clientWidth, 1)]

\* Math.round((deltaPx / width) * totalSteps) of updateFromClientX.
deltaStepOf(deltaPx, width, totalSteps) ==
  MathRoundOf(DoubleMulInt(totalSteps, DoubleDiv(deltaPx, width)))

\* The date lists handed to the slider.
MaxDates == 3

SliderDates ==
  {DateStr(2026, 1, 1), DateStr(2026, 1, 2), DateStr(2026, 1, 5)}

\* Strictly increasing lists of at most MaxDates dates.
SliderDateLists ==
  {dates \in SeqUpTo(SliderDates, MaxDates) :
     \A i \in 1..(Len(dates) - 1) : StrLess(dates[i], dates[i + 1])}

\* The ends a range prop can have: dates of the list, dates between them
\* and dates before and after all of them.
SliderRangeEnds ==
  SliderDates \cup {DateStr(2025, 12, 31), DateStr(2026, 1, 3), DateStr(2026, 3, 1)}

\* The positions of the pointer and the widths of the track.
SliderXs == {0, 1}

SliderWidths == {0, 4}

\* The drags that can be under way at once: one for every pointer that is
\* down on the track.
MaxDrags == 2

\* deltaStepOf on every move the positions and widths above allow, computed
\* once: the pairs of a move and its step.
DeltaSteps ==
  {<<move, deltaStepOf(move[1], move[2], move[3])>> :
     move \in {a - b : a \in SliderXs, b \in SliderXs}
              \X {MathMax(w, 1) : w \in SliderWidths}
              \X (0..MaxDates)}

DeltaStep(deltaPx, width, totalSteps) ==
  (CHOOSE pair \in DeltaSteps : pair[1] = <<deltaPx, width, totalSteps>>)[2]

\* updateFromClientX: the range a move of the drag hands to onChange.
updateFromClientX(dates, drag, clientX) ==
  LET deltaPx == clientX - drag.startX
      deltaStep == DeltaStep(deltaPx, drag.width, drag.totalSteps)
      nextStart == MathMin(MathMax(drag.baseStart + deltaStep, 0), drag.maxStart)
      nextEnd == nextStart + drag.currentWindow
  IN [start |-> Val(DateOr(dates, nextStart, 0)),
      end |-> Val(DateOr(dates, nextEnd, Len(dates) - 1))]

----------------------------------------------------------------------------
(* The chart series of src/App.tsx *)

\* RangePreset of utils/dateRange.ts.
RangePresets == {"1M", "6M", "1Y", "2Y", "ALL"}

\* The day number of day `day` of the month `month` (counted from 0) of
\* `year`, as setUTCFullYear and setUTCMonth make it: a month beyond its
\* range carries into the year and a day beyond the end of the month into
\* the next month.
MakeDay(year, month, day) ==
  LET months == year * 12 + month
  IN DaysFromCivil(months \div 12, (months % 12) + 1, 1) + day - 1

\* parsed.setUTCFullYear(parsed.getUTCFullYear() + years) on the civil date
\* c of parsed.
WithYear(c, years) == CivilFromDays(MakeDay(c.y + years, c.m - 1, c.d))

\* parsed.setUTCMonth(parsed.getUTCMonth() + months), and then
\* parsed.toISOString().slice(0, 10).
WithMonth(c, months) ==
  formatUtcDate(MakeDay(c.y, c.m - 1 + months, c.d) * msPerDay)

\* shiftDate from the parsed date on.
ShiftParsed(parsed, years, months) ==
  IF IsNull(parsed) THEN Null
  ELSE Some(WithMonth(WithYear(CivilFromDays(Val(parsed) \div msPerDay), years),
                      months))

\* shiftDate of utils/dateRange.ts: Null when the date is no date, so that
\* toISOString throws "Invalid time value".
shiftDate(date, years, months) ==
  ShiftParsed(DateParse(date, Midnight), years, months)

\* The years and the months resolvePresetRange shifts the end by for a
\* preset that is not "ALL".
PresetYears(preset) ==
  IF preset = "1Y" THEN -1 ELSE IF preset = "2Y" THEN -2 ELSE 0

PresetMonths(preset) ==
  IF preset = "6M" THEN -6 ELSE IF preset \in {"1Y", "2Y"} THEN 0 ELSE -1

\* { start: shiftDate(end, ...), end }: Null when shiftDate throws.
RangeFrom(shifted, end) ==
  IF IsNull(shifted) THEN Null ELSE Some([start |-> Val(shifted), end |-> end])

\* resolvePresetRange of utils/dateRange.ts at the instant now: Null when
\* shiftDate throws.
resolvePresetRange(points, preset, now) ==
  IF Len(points) = 0
  THEN Some([start |-> formatUtcDate(now), end |-> formatUtcDate(now)])
  ELSE IF preset = "ALL"
  THEN Some([start |-> points[1].date, end |-> points[Len(points)].date])
  ELSE RangeFrom(shiftDate(points[Len(points)].date, PresetYears(preset),
                           PresetMonths(preset)),
                 points[Len(points)].date)

\* The memo effectiveRange of App for the state selection (preset,
\* hasRangeOverride, range): Null when resolvePresetRange throws.
effectiveRange(points, selection, now) ==
  IF Len(points) = 0 THEN Some(selection.range)
  ELSE IF selection.hasRangeOverride THEN Some(selection.range)
  ELSE resolvePresetRange(points, selection.preset, now)

\* filterByRange of utils/dateRange.ts.
filterByRange(points, range) ==
  LET InRange(point) ==
        /\ ~StrLess(point.date, range.start)
        /\ ~StrLess(range.end, point.date)
  IN SelectSeq(points, InRange)

\* The sum and the number of the values of values[start..index] that are
\* not null: the inner loop of smoothWeekly.
RECURSIVE WindowFrom(_, _, _, _, _)
WindowFrom(values, cursor, index, sum, count) ==
  IF cursor > index THEN [sum |-> sum, count |-> count]
  ELSE IF IsNull(values[cursor])
  THEN WindowFrom(values, cursor + 1, index, sum, count)
  ELSE WindowFrom(values, cursor + 1, index, sum + Val(values[cursor]), count + 1)

\* smoothWeekly: for every index, the rounded mean of the values that are
\* not null among the windowDays entries that end at it.
smoothWeekly(values) ==
  LET windowDays == 7
  IN [index \in 1..Len(values) |->
        LET start == IF index - windowDays + 1 > 1
                     THEN index - windowDays + 1 ELSE 1
            window == WindowFrom(values, start, index, 0, 0)
        IN IF window.count > 0
           THEN Some(MathRoundOf(DoubleDiv(window.sum, window.count)))
           ELSE Null]

\* filtered.filter((item) => item[pick] != null)
seriesOf(filtered, pick) ==
  LET HasValue(item) == ~IsNull(item[pick])
  IN SelectSeq(filtered, HasValue)

\* The dates, the values and the smoothed values of the chart of a source.
chartOf(filtered, pick) ==
  LET series == seriesOf(filtered, pick)
      values == [i \in 1..Len(series) |-> series[i][pick]]
  IN [dates |-> [i \in 1..Len(series) |-> series[i].date],
      values |-> values,
      smoothed |-> smoothWeekly(values)]

----------------------------------------------------------------------------
(* scripts/prepare-baseline.ts and the baseline growth check *)

\* The content of a large CSV file, by its number of rows and of bytes.
Content(rows, bytes) == [rows |-> rows, bytes |-> bytes]

NoContent == Content(0, 0)

\* SPECS: the three baseline files with their minimum sizes, in the order
\* prepare() and verify() go through them.
SPECS ==
  <<[fileName |-> "realmeye", minBytes |-> 50000],
    [fileName |-> "realmstock", minBytes |-> 150000],
    [fileName |-> "launcher", minBytes |-> 5000]>>

\* The bytes of the lines of a file, each ended by a line feed.
RECURSIVE LineBytes(_)
LineBytes(lines) ==
  IF Len(lines) = 0 THEN 0 ELSE Len(Head(lines)) + 1 + LineBytes(Tail(lines))

\* A file of the data directory: the leading content the baseline brought,
\* followed by the lines the model enumerates.
Target(file, leading) == [file |-> file, leading |-> leading]

\* fileSize: 0 for a missing file.
fileSize(target) ==
  IF ~target.file.exists THEN 0
  ELSE target.leading.bytes + LineBytes(target.file.lines)

\* fileRows: the non-empty trimmed lines, 0 for a missing file.
fileRows(target) ==
  IF ~target.file.exists THEN 0
  ELSE target.leading.rows + Len(ReadLines(target.file))

\* fileSize of a file of the download directory, missing when Null.
downloadSize(downloaded) ==
  IF IsNull(downloaded) THEN 0 ELSE Val(downloaded).bytes

\* A file written with content.
Written(content) == Target(FileOf(<<>>), content)

\* A slip: no minimum is enforced.
belowMinimumNever(bytes, minBytes) == FALSE

\* The test before the throw of prepare(): the file is below its minimum.
belowMinimum(bytes, minBytes) == bytes < minBytes

\* One round of the loop of prepare(): the downloaded file is copied when
\* it has the minimum size, the data branch is asked when the target is
\* still below it, and the round throws when it still is afterwards.
prepareSpec(target, minBytes, downloaded, fromDataBranch) ==
  LET copied == IF downloadSize(downloaded) >= minBytes
                THEN Written(Val(downloaded)) ELSE target
      recovered ==
        IF fileSize(copied) < minBytes
             /\ ~IsNull(fromDataBranch) /\ Val(fromDataBranch).bytes > 0
        THEN Written(Val(fromDataBranch)) ELSE copied
      bytes == fileSize(recovered)
  IN [target |-> recovered,
      threw |-> belowMinimum(bytes, minBytes),
      meta |-> [rows |-> fileRows(recovered), bytes |-> bytes]]

\* The loop of prepare() from round i on: targets and metadata so far, and
\* whether a round threw.
RECURSIVE prepareFrom(_, _, _, _, _)
prepareFrom(i, targets, metadata, downloaded, branch) ==
  IF i > Len(SPECS)
  THEN [targets |-> targets, metadata |-> metadata, threw |-> FALSE]
  ELSE LET spec == SPECS[i]
           name == spec.fileName
           round == prepareSpec(targets[name], spec.minBytes,
                                downloaded[name], branch[name])
           after == [targets EXCEPT ![name] = round.target]
       IN IF round.threw
          THEN [targets |-> after, metadata |-> metadata, threw |-> TRUE]
          ELSE prepareFrom(i + 1, after, MapSet(metadata, name, round.meta),
                           downloaded, branch)

\* The names of the three files.
FileNames == {SPECS[i].fileName : i \in 1..Len(SPECS)}

MinBytesOf(name) ==
  (CHOOSE spec \in {SPECS[i] : i \in 1..Len(SPECS)} :
     spec.fileName = name).minBytes

\* The rows of a CSV file of a given size, at about twenty bytes a row.
ContentOfSize(bytes) == Content(bytes \div 20, bytes)

\* What `gh release download --clobber` can do to the file of the download
\* directory: fail and leave what was there, write a file just below the
\* minimum, write a file just at it.
DownloadKinds == {"failed", "small", "ok"}

DownloadOf(kind, minBytes, before) ==
  CASE kind = "failed" -> before
    [] kind = "small" -> Some(ContentOfSize(minBytes - 1))
    [] OTHER -> Some(ContentOfSize(minBytes))

\* What fetchDataBranchCsv can return for a file: null, the empty string,
\* a text below the minimum, a text above it.
BranchKinds == {"none", "empty", "small", "ok"}

BranchOf(kind, minBytes) ==
  CASE kind = "none" -> Null
    [] kind = "empty" -> Some(NoContent)
    [] kind = "small" -> Some(ContentOfSize(minBytes - 20))
    [] OTHER -> Some(ContentOfSize(minBytes + 20))

\* What pickSourceTag can do: the gh call fails, no release qualifies, or a
\* release is picked.
ReleaseOutcomes == {"throws", "none", "tag"}

\* The downloads there can be: none unless a release was picked.
DownloadsAfter(repository, release) ==
  IF repository /\ release = "tag" THEN [FileNames -> DownloadKinds]
  ELSE {[name \in FileNames |-> "failed"]}

\* The answers of the data branch there can be: it is not asked when
\* prepare() throws before its loop, and it is asked only for the files of
\* asked.
BranchesAfter(repository, release, asked) ==
  IF repository /\ release # "throws"
  THEN {branchKinds \in [FileNames -> BranchKinds] :
          \A name \in FileNames \ asked : branchKinds[name] = "none"}
  ELSE {[name \in FileNames |-> "none"]}

\* The runs of prepare() the model follows.
MaxPrepares == 2

\* The state of prepare() before its first run.
PrepareIdle == [pc |-> "idle", runs |-> 0, metaBefore |-> Null]

\* The outcome of verify(): the file whose check threw, if one did.
VerifyOk == [threw |-> FALSE, why |-> "", fileName |-> ""]

VerifyThrew(why, fileName) == [threw |-> TRUE, why |-> why, fileName |-> fileName]

\* The loop of verify() from file i on.
RECURSIVE verifyFrom(_, _, _)
verifyFrom(i, baseline, targets) ==
  IF i > Len(SPECS) THEN VerifyOk
  ELSE LET name == SPECS[i].fileName
       IN IF ~MapHas(baseline, name) THEN VerifyThrew("entry", name)
          ELSE IF fileRows(targets[name]) <= baseline[name].rows
          THEN VerifyThrew("rows", name)
          ELSE IF fileSize(targets[name]) <= baseline[name].bytes
          THEN VerifyThrew("bytes", name)
          ELSE verifyFrom(i + 1, baseline, targets)

\* verify(): the metadata file must exist, and every file must have grown
\* in rows and in bytes.
verify(meta, targets) ==
  IF IsNull(meta) THEN VerifyThrew("metadata", "")
  ELSE verifyFrom(1, Val(meta), targets)

----------------------------------------------------------------------------
(* scripts/migrate-launcher.ts *)

\* splitCsvLine from index on: a comma outside double quotes ends a field,
\* a double quote opens or closes the quotes, and a doubled double quote
\* within quotes is one double quote of the field.
RECURSIVE splitCsvLineFrom(_, _, _, _)
splitCsvLineFrom(line, index, current, inQuotes) ==
  IF index > Len(line) THEN <<current>>
  ELSE LET char == line[index]
       IN IF char = "\""
          THEN IF inQuotes /\ index < Len(line) /\ line[index + 1] = "\""
               THEN splitCsvLineFrom(line, index + 2, Append(current, "\""),
                                     inQuotes)
               ELSE splitCsvLineFrom(line, index + 1, current, ~inQuotes)
          ELSE IF char = "," /\ ~inQuotes
          THEN <<current>> \o splitCsvLineFrom(line, index + 1, <<>>, inQuotes)
          ELSE splitCsvLineFrom(line, index + 1, Append(current, char),
                                inQuotes)

splitCsvLine(line) == splitCsvLineFrom(line, 1, <<>>, FALSE)

\* The lower-case letters of the upper-case letters.
LowerCase ==
  "A" :> "a" @@ "B" :> "b" @@ "C" :> "c" @@ "D" :> "d" @@ "E" :> "e" @@
  "F" :> "f" @@ "G" :> "g" @@ "H" :> "h" @@ "I" :> "i" @@ "J" :> "j" @@
  "K" :> "k" @@ "L" :> "l" @@ "M" :> "m" @@ "N" :> "n" @@ "O" :> "o" @@
  "P" :> "p" @@ "Q" :> "q" @@ "R" :> "r" @@ "S" :> "s" @@ "T" :> "t" @@
  "U" :> "u" @@ "V" :> "v" @@ "W" :> "w" @@ "X" :> "x" @@ "Y" :> "y" @@
  "Z" :> "z"

\* String.prototype.toLowerCase
ToLowerCase(s) ==
  [i \in 1..Len(s) |->
     IF s[i] \in DOMAIN LowerCase THEN LowerCase[s[i]] ELSE s[i]]

\* rawViews.replace(/[^0-9]/g, "")
DigitsOnly(s) == SelectSeq(s, IsDigit)

\* The row parseRows pushes for a line that is not empty, Null when the
\* line is skipped: it has no time, it is the header, or its second
\* column has no digit.
sourceRowOf(line) ==
  LET columns == splitCsvLine(line)
      rawTime == Trim(columns[1])
      rawViews == IF Len(columns) >= 2 THEN Trim(columns[2]) ELSE <<>>
      views == ParseInt(DigitsOnly(rawViews))
  IN IF Len(rawTime) = 0 \/ ToLowerCase(rawTime) = <<"t", "i", "m", "e">>
     THEN Null
     ELSE IF IsNull(views) \/ Val(views) < 0 THEN Null
     ELSE Some([localDateTime |-> rawTime, views |-> Val(views)])

\* parseRows: the rows of the lines of the source, in order.
parseRows(source) ==
  LET lines == [i \in 1..Len(source.lines) |-> TrimEnd(source.lines[i])]
      parsed == [i \in 1..Len(lines) |->
                   IF Len(lines[i]) = 0 THEN Null ELSE sourceRowOf(lines[i])]
      Pushed(row) == ~IsNull(row)
      pushed == SelectSeq(parsed, Pushed)
  IN [i \in 1..Len(pushed) |-> Val(pushed[i])]

\* The digits of s from index i on, up to the first character that is no
\* digit.
RECURSIVE DigitsFrom(_, _)
DigitsFrom(s, i) ==
  IF i > Len(s) \/ ~IsDigit(s[i]) THEN <<>>
  ELSE <<s[i]>> \o DigitsFrom(s, i + 1)

\* The number of white space characters of s from index i on.
RECURSIVE SpacesFrom(_, _)
SpacesFrom(s, i) ==
  IF i > Len(s) \/ ~IsSpace(s[i]) THEN 0 ELSE 1 + SpacesFrom(s, i + 1)

\* localDateTime.match(
\*   /^(\d{1,2})\/(\d{1,2})\/(\d{4})\s+(\d{1,2}):(\d{2})(?::(\d{2}))?$/):
\* the six groups as numbers, the seconds 0 when the group is absent, and
\* Null when there is no match.
MatchLocalDateTime(s) ==
  LET At(i, c) == i <= Len(s) /\ s[i] = c
      month == DigitsFrom(s, 1)
      dayAt == Len(month) + 2
      day == DigitsFrom(s, dayAt)
      yearAt == dayAt + Len(day) + 1
      year == DigitsFrom(s, yearAt)
      spaceAt == yearAt + Len(year)
      hourAt == spaceAt + SpacesFrom(s, spaceAt)
      hour == DigitsFrom(s, hourAt)
      minuteAt == hourAt + Len(hour) + 1
      minute == DigitsFrom(s, minuteAt)
      rest == minuteAt + Len(minute)
      second == DigitsFrom(s, rest + 1)
      matches ==
        /\ Len(month) \in 1..2
        /\ At(dayAt - 1, "/")
        /\ Len(day) \in 1..2
        /\ At(yearAt - 1, "/")
        /\ Len(year) = 4
        /\ hourAt > spaceAt
        /\ Len(hour) \in 1..2
        /\ At(minuteAt - 1, ":")
        /\ Len(minute) = 2
        /\ \/ rest = Len(s) + 1
           \/ At(rest, ":") /\ Len(second) = 2 /\ rest + 2 = Len(s)
  IN IF ~matches THEN Null
     ELSE Some([month |-> DigitRun(month, 1, 0),
                day |-> DigitRun(day, 1, 0),
                year |-> DigitRun(year, 1, 0),
                hour |-> DigitRun(hour, 1, 0),
                minute |-> DigitRun(minute, 1, 0),
                second |-> IF rest = Len(s) + 1 THEN 0
                           ELSE DigitRun(second, 1, 0)])

\* Date.UTC(year, month, day, hour, minute, second), month counted from 0:
\* a year of 0..99 is taken as 1900 + year, and a field beyond its range
\* carries into the next.
DateUTC(year, month, day, hour, minute, second) ==
  LET fullYear == IF year \in 0..99 THEN 1900 + year ELSE year
      months == fullYear * 12 + month
  IN (DaysFromCivil(months \div 12, (months % 12) + 1, 1) + day - 1) * msPerDay
       + hour * 3600 + minute * 60 + second

\* The day of the week of day number z, Sunday being 0.
WeekDay(z) == (z + 4) % 7

\* The day number of the n-th Sunday of month m of year y.
NthSunday(y, m, n) ==
  LET first == DaysFromCivil(y, m, 1)
  IN first + ((7 - WeekDay(first)) % 7) + 7 * (n - 1)

\* The day number of the last Sunday of month m of year y.
LastSunday(y, m) ==
  LET last == DaysFromCivil(y, m, DaysInMonth(y, m))
  IN last - WeekDay(last)

\* The instant of 2:00 standard time of a day of New York.
StandardTwo(day) == day * msPerDay + 7 * 3600

\* The instant of 2:00 daylight time of a day of New York.
DaylightTwo(day) == day * msPerDay + 6 * 3600

\* The instant the year y of UTC begins at.
YearStart(y) == DaysFromCivil(y, 1, 1) * msPerDay

\* The instant daylight time begins at in the year y of America/New_York,
\* as the time zone data behind Intl.DateTimeFormat has it: no daylight
\* time before 1918; the last Sunday of March in 1918..1920; the last
\* Sunday of April in 1921..1941; war time from February 9, 1942 through
\* the years 1943..1945; the last Sunday of April in 1946..1973;
\* January 6 in 1974; the last Sunday of February in 1975; the last Sunday
\* of April in 1976..1986; the first Sunday of April in 1987..2006; the
\* second Sunday of March since 2007.
DaylightStart(y) ==
  IF y >= 2007 THEN StandardTwo(NthSunday(y, 3, 2))
  ELSE IF y >= 1987 THEN StandardTwo(NthSunday(y, 4, 1))
  ELSE IF y >= 1976 THEN StandardTwo(LastSunday(y, 4))
  ELSE IF y = 1975 THEN StandardTwo(LastSunday(y, 2))
  ELSE IF y = 1974 THEN StandardTwo(DaysFromCivil(1974, 1, 6))
  ELSE IF y >= 1946 THEN StandardTwo(LastSunday(y, 4))
  ELSE IF y >= 1943 THEN YearStart(y)
  ELSE IF y = 1942 THEN StandardTwo(DaysFromCivil(1942, 2, 9))
  ELSE IF y >= 1921 THEN StandardTwo(LastSunday(y, 4))
  ELSE IF y >= 1918 THEN StandardTwo(LastSunday(y, 3))
  ELSE YearStart(y)

\* The instant daylight time ends at in the year y of America/New_York:
\* the last Sunday of October in 1918..1920; the last Sunday of September
\* in 1921..1941; war time runs through 1942..1944 and ends on
\* September 30, 1945; the last Sunday of September in 1946..1954; the
\* last Sunday of October in 1955..2006; the first Sunday of November
\* since 2007.
DaylightEnd(y) ==
  IF y >= 2007 THEN DaylightTwo(NthSunday(y, 11, 1))
  ELSE IF y >= 1955 THEN DaylightTwo(LastSunday(y, 10))
  ELSE IF y >= 1946 THEN DaylightTwo(LastSunday(y, 9))
  ELSE IF y = 1945 THEN DaylightTwo(DaysFromCivil(1945, 9, 30))
  ELSE IF y >= 1942 THEN YearStart(y + 1)
  ELSE IF y >= 1921 THEN DaylightTwo(LastSunday(y, 9))
  ELSE IF y >= 1918 THEN DaylightTwo(LastSunday(y, 10))
  ELSE YearStart(y)

\* The offset of the zone at an instant of the year y of UTC.
OffsetInYear(instant, y) ==
  IF DaylightStart(y) <= instant /\ instant < DaylightEnd(y)
  THEN -4 * 3600 ELSE -5 * 3600

\* The offset of America/New_York from UTC at an instant, in the model's
\* unit. The instants of the model lie in 1902..2037, after the zone left
\* local mean time (1883).
NewYorkOffset(instant) ==
  OffsetInYear(instant, CivilFromDays(instant \div msPerDay).y)

\* The hours Intl.DateTimeFormat("en-US", {hour12: false}) can write for
\* the hour after midnight: 24 where hour12: false selects the hour cycle
\* h24 for a locale of the twelve-hour clock, 0 where it selects h23.
MidnightHours == {0, 24}

\* Date.UTC of the parts the formatter writes for the civil date and the
\* time of day of the wall clock.
PartsAsUtc(date, inDay, midnightHour) ==
  DateUTC(date.y, date.m - 1, date.d,
          IF inDay \div 3600 = 0 THEN midnightHour ELSE inDay \div 3600,
          (inDay \div 60) % 60, inDay % 60)

\* The wall clock time local of the zone, taken as a UTC time.
WallClockAsUtc(local, midnightHour) ==
  PartsAsUtc(CivilFromDays(local \div msPerDay), local % msPerDay, midnightHour)

\* offsetMillisAt(instant, SOURCE_TIMEZONE): the parts of the formatted
\* wall clock time taken as a UTC time, less the instant.
offsetMillisAt(instant, midnightHour) ==
  WallClockAsUtc(instant + NewYorkOffset(instant), midnightHour) - instant

\* The loop of nyLocalToUtc from iteration on.
RECURSIVE utcMillisFrom(_, _, _, _)
utcMillisFrom(iteration, utcMillis, localAsUtcMillis, midnightHour) ==
  IF iteration >= 3 THEN utcMillis
  ELSE utcMillisFrom(iteration + 1,
                     localAsUtcMillis - offsetMillisAt(utcMillis, midnightHour),
                     localAsUtcMillis, midnightHour)

\* converted.toISOString().slice(0, 10) and .slice(11, 19)
IsoParts(iso) == [date |-> SubSeq(iso, 1, 10), time |-> SubSeq(iso, 12, 19)]

\* The loop of nyLocalToUtc on localAsUtcMillis.
ConvertLocal(localAsUtcMillis, midnightHour) ==
  utcMillisFrom(0, localAsUtcMillis, localAsUtcMillis, midnightHour)

\* nyLocalToUtc from the match on.
ConvertMatch(match, midnightHour) ==
  IF IsNull(match) THEN Null
  ELSE Some(IsoParts(toISOString(
         ConvertLocal(DateUTC(Val(match).year, Val(match).month - 1,
                              Val(match).day, Val(match).hour,
                              Val(match).minute, Val(match).second),
                      midnightHour))))

\* nyLocalToUtc: the UTC date and time of a wall clock time of New York,
\* Null when the text has not the shape M/D/YYYY H:MM[:SS].
nyLocalToUtc(localDateTime, midnightHour) ==
  ConvertMatch(MatchLocalDateTime(localDateTime), midnightHour)

\* The entry run() makes of the UTC time of a row: Null when the time did
\* not convert or the UTC date lies before LAUNCHER_MIN_DATE.
EntryFrom(utc, views) ==
  IF IsNull(utc) THEN Null
  ELSE IF StrLess(Val(utc).date, LAUNCHER_MIN_DATE) THEN Null
  ELSE Some([key |-> Val(utc).date \o <<"T">> \o Val(utc).time,
             line |-> Line(Val(utc).time, Val(utc).date, NumStr(views))])

\* The entry run() makes of a row.
entryOf(row, midnightHour) ==
  EntryFrom(nyLocalToUtc(row.localDateTime, midnightHour), row.views)

\* The lines of the entries: the first of every key only, in the order of
\* the keys.
LinesOfEntries(entries) ==
  LET first == {i \in 1..Len(entries) :
                  /\ ~IsNull(entries[i])
                  /\ \A j \in 1..(i - 1) :
                       IsNull(entries[j])
                         \/ Val(entries[j]).key # Val(entries[i]).key}
      ranked == {<<Cardinality({j \in first :
                                  localeCompare(Val(entries[j]).key,
                                                Val(entries[i]).key) < 0}),
                   Val(entries[i]).line>> : i \in first}
  IN [k \in 1..Cardinality(first) |->
        (CHOOSE r \in ranked : r[1] = k - 1)[2]]

\* The lines run() writes for the rows.
normalizedOf(rows, midnightHour) ==
  LinesOfEntries([i \in 1..Len(rows) |-> entryOf(rows[i], midnightHour)])

\* `${normalized.join("\n")}\n` as the lines of a file: with nothing to
\* join the text is one line break, which ends an empty line.
JoinedLines(normalized) ==
  IF Len(normalized) = 0 THEN <<<<>>>> ELSE normalized

\* The state of the migration before its first run.
MigrationIdle == [runs |-> 0, threw |-> FALSE, rows |-> 0, lines |-> 0]

\* The runs of the migration the model follows.
MaxMigrations == 1

\* A wall clock time of New York as the export writes it.
LocalTime(month, day, year, hour, minute) ==
  NumStr(month) \o <<"/">> \o NumStr(day) \o <<"/">> \o Pad4(year) \o <<" ">>
    \o NumStr(hour) \o <<":">> \o Pad2(minute)

Quoted(s) == <<"\"">> \o s \o <<"\"">>

\* The exports the migration reads: none; an empty one; one with a header,
\* quoted fields, a row before the cutoff, a repeated time and a time of
\* no shape, out of order; one of the winter, with a row that has no views,
\* carriage returns and a row of a March under the daylight rule of
\* 1987..2006; and one with a row of the hour after midnight.
MigrationSources ==
  {NoFile,
   FileOf(<<>>),
   FileOf(<<<<"T", "i", "m", "e", ",", "V", "i", "e", "w", "s">>,
            Quoted(LocalTime(7, 4, 2024, 8, 0) \o <<":", "0", "0">>)
              \o <<",">> \o Quoted(<<"1", ",", "2", "3", "4">>),
            LocalTime(7, 3, 2024, 20, 0) \o <<",">> \o NumStr(9),
            LocalTime(7, 2, 2024, 10, 0) \o <<",">> \o NumStr(5),
            LocalTime(7, 4, 2024, 8, 0) \o <<":", "0", "0", ",">> \o NumStr(77),
            <<"b", "a", "d", ",", "3">>>>),
   FileOf(<<LocalTime(12, 1, 2024, 8, 0) \o <<",">> \o NumStr(40) \o <<"\r">>,
            LocalTime(12, 2, 2024, 9, 0) \o <<",", "\r">>,
            LocalTime(3, 20, 2006, 12, 0) \o <<",">> \o NumStr(8)>>),
   FileOf(<<LocalTime(7, 5, 2024, 0, 30) \o <<",">> \o NumStr(7),
            LocalTime(7, 4, 2024, 23, 0) \o <<",">> \o NumStr(3)>>)}

----------------------------------------------------------------------------
(* State *)

VARIABLES
  realmeyeFile,      \* data/realmeye-full.csv
  realmeyeFallback,  \* the RealmEye export in the repository root
  realmstockFile,    \* data/realmstock-full.csv
  launcherFile,      \* data/launcher-full.csv
  clock,             \* the instant new Date() returns
  dailyJson,         \* src/data/daily.json: Null, or Some(compact)
  out,               \* the values computed by the last run() of aggregate.ts
  probe,             \* the last evaluation of interpolateLauncherViewsAt
  data,              \* the data state of useDailyData
  lastUpdatedAt,     \* the freshness timestamp handed to buildStats
  stats,             \* the last result of buildStats
  tableRows,         \* the memo tableRows of the last render of App
  filteredPoints,    \* the memo filtered of the last render of App
  scrape,            \* the position and the counters of run() of scrape.ts
  dataDir,           \* whether the directory data/ exists
  leading,           \* per data file, the content the baseline brought
  downloadDir,       \* per data file, its file in .tmp/baseline-download
  metaFile,          \* .tmp/baseline-meta.json
  prepared,          \* the runs of prepare() and the outcome of the last
  verified,          \* the outcome of verify()
  migration,         \* the runs of the launcher migration and the last outcome
  charts,            \* the chart series App computes from the filtered data
  hook,              \* isLoading, error, requestKey and the requests of useDailyData
  slider             \* the props of SharedRangeSlider, its drags and its last event

vars == <<realmeyeFile, realmeyeFallback, realmstockFile, launcherFile,
          clock, dailyJson, out, probe, data, lastUpdatedAt, stats, tableRows,
          filteredPoints, scrape, dataDir, leading, downloadDir, metaFile, prepared, verified,
          migration, charts, hook, slider>>

workflow == <<leading, downloadDir, metaFile, prepared, verified, migration>>

ui == <<charts, hook, slider>>

others == <<workflow, ui>>

pipeline == <<clock, dailyJson, out, probe, data>>

metrics == <<lastUpdatedAt, stats, tableRows, filteredPoints>>

files == <<realmeyeFile, realmeyeFallback, realmstockFile, launcherFile>>

\* No baseline was prepared, the download directory is empty and nothing
\* was verified.
InitWorkflowVars ==
  /\ leading = [name \in FileNames |-> NoContent]
  /\ downloadDir = [name \in FileNames |-> Null]
  /\ metaFile = Null
  /\ prepared = PrepareIdle
  /\ verified = Null
  /\ migration = MigrationIdle

\* Nothing is rendered.
InitUi ==
  /\ charts = Null
  /\ hook = HookMounted
  /\ slider = [dates |-> <<>>,
               range |-> [start |-> DateStr(2026, 1, 1), end |-> DateStr(2026, 1, 1)],
               drags |-> <<>>, last |-> "none", emitted |-> <<>>]

InitOthers == InitWorkflowVars /\ InitUi

InitRest ==
  /\ clock = ClockStart
  /\ dailyJson = Null
  /\ out = Null
  /\ probe = Null
  /\ data = Null
  /\ lastUpdatedAt = Null
  /\ stats = Null
  /\ tableRows = Null
  /\ filteredPoints = Null
  /\ scrape = ScrapeIdle
  /\ InitOthers

\* The whole pipeline on small files.
Init ==
  /\ realmeyeFile \in Files(RunCsvLines, MaxRunLines)
  /\ realmeyeFallback \in {NoFile, FallbackFile}
  /\ realmstockFile \in Files(RunCsvLines, MaxRunLines)
  /\ launcherFile \in RunLauncherFiles
  /\ dataDir = TRUE
  /\ InitRest

\* The same lines, well-formed and malformed, in every file.
InitCsv ==
  /\ realmeyeFile \in Files(CsvLines, MaxCsvLines)
  /\ realmeyeFallback = FallbackFile
  /\ realmstockFile = realmeyeFile
  /\ launcherFile = realmeyeFile
  /\ dataDir = TRUE
  /\ InitRest

\* Launcher samples only.
InitLauncher ==
  /\ realmeyeFile = NoFile
  /\ realmeyeFallback = NoFile
  /\ realmstockFile = NoFile
  /\ launcherFile \in Files(LauncherLines, MaxLauncherLines)
                        \cup LauncherSeriesFiles
  /\ dataDir = TRUE
  /\ InitRest

\* Decoded data of any content, with and without a freshness timestamp.
InitMetrics ==
  /\ realmeyeFile = NoFile
  /\ realmeyeFallback = NoFile
  /\ realmstockFile = NoFile
  /\ launcherFile = NoFile
  /\ clock = ClockStart
  /\ dailyJson = Null
  /\ out = Null
  /\ probe = Null
  /\ data \in {Some(ps) : ps \in MetricSequences}
  /\ lastUpdatedAt \in {Null, Some(toISOString(ClockStart))}
  /\ stats = Null
  /\ tableRows = Null
  /\ filteredPoints = Null
  /\ scrape = ScrapeIdle
  /\ dataDir = TRUE
  /\ InitOthers

\* Decoded data of any content, before the charts are computed.
InitCharts ==
  /\ realmeyeFile = NoFile
  /\ realmeyeFallback = NoFile
  /\ realmstockFile = NoFile
  /\ launcherFile = NoFile
  /\ dataDir = TRUE
  /\ data \in {Some(ps) : ps \in MetricSequences}
  /\ clock = ClockStart
  /\ dailyJson = Null
  /\ out = Null
  /\ probe = Null
  /\ lastUpdatedAt = Null
  /\ stats = Null
  /\ tableRows = Null
  /\ filteredPoints = Null
  /\ scrape = ScrapeIdle
  /\ InitOthers

\* The hook after the mount: data is the empty list and the first request
\* is in flight.
InitHook ==
  /\ realmeyeFile = NoFile
  /\ realmeyeFallback = NoFile
  /\ realmstockFile = NoFile
  /\ launcherFile = NoFile
  /\ dataDir = TRUE
  /\ data = Some(<<>>)
  /\ clock = ClockStart
  /\ dailyJson = Null
  /\ out = Null
  /\ probe = Null
  /\ lastUpdatedAt = Null
  /\ stats = Null
  /\ tableRows = Null
  /\ filteredPoints = Null
  /\ scrape = ScrapeIdle
  /\ InitOthers

\* The slider with a list of dates and any range prop.
InitSlider ==
  /\ realmeyeFile = NoFile
  /\ realmeyeFallback = NoFile
  /\ realmstockFile = NoFile
  /\ launcherFile = NoFile
  /\ dataDir = TRUE
  /\ clock = ClockStart
  /\ dailyJson = Null
  /\ out = Null
  /\ probe = Null
  /\ data = Null
  /\ lastUpdatedAt = Null
  /\ stats = Null
  /\ tableRows = Null
  /\ filteredPoints = Null
  /\ scrape = ScrapeIdle
  /\ InitWorkflowVars
  /\ charts = Null
  /\ hook = HookMounted
  /\ slider \in {[dates |-> dates,
                   range |-> [start |-> start, end |-> end],
                   drags |-> <<>>, last |-> "none", emitted |-> <<>>] :
                    dates \in SliderDateLists,
                    start \in SliderRangeEnds, end \in SliderRangeEnds}

\* The raw files before a scrape run: missing, or holding one row.
InitScrape ==
  /\ realmeyeFile \in Files(RunCsvLines, MaxRunLines)
  /\ realmeyeFallback = NoFile
  /\ realmstockFile \in {NoFile, FileOf(<<Line(Noon, Jul(3), NumStr(5))>>)}
  /\ launcherFile \in {NoFile, FileOf(<<Line(Noon, Jul(4), NumStr(9))>>)}
  /\ dataDir \in {exists \in BOOLEAN :
                    (realmeyeFile.exists \/ realmstockFile.exists
                       \/ launcherFile.exists) => exists}
  /\ InitRest

----------------------------------------------------------------------------
(* Actions *)

\* The clock advances.
Tick ==
  /\ clock < ClockStart + MaxTicks
  /\ clock' = clock + 1
  /\ UNCHANGED <<files, dailyJson, out, probe, data, metrics, scrape, dataDir,
                 others>>

\* run() of scripts/aggregate.ts.
Run ==
  LET realmeyeSource == realmeyeSourceOf(realmeyeFile, realmeyeFallback)
      realmstockSource == realmstockSourceOf(realmstockFile)
      realmeyeRows == parseCsvRows(realmeyeSource)
      realmstockRows == parseCsvRows(realmstockSource)
      launcherRows == parseLauncherRows(launcherFile)
      realmeyeDaily == aggregateMaxByDate(realmeyeRows)
      realmstockDaily == aggregateMaxByDate(realmstockRows)
      launcherDailyLoads == aggregateLauncherLoads(launcherRows)
      merged == mergeDaily(realmeyeDaily, realmstockDaily, launcherDailyLoads)
      compact == toCompactDaily(merged, toISOString(clock))
  IN /\ dailyJson' = Some(compact)
     /\ out' = Some([realmeyeLines |-> realmeyeSource.lines,
                     realmstockLines |-> realmstockSource.lines,
                     launcherLines |-> launcherFile.lines,
                     realmeyeRows |-> realmeyeRows,
                     realmstockRows |-> realmstockRows,
                     launcherRows |-> launcherRows,
                     realmeyeDaily |-> realmeyeDaily,
                     realmstockDaily |-> realmstockDaily,
                     points |-> normalizeLauncherPoints(launcherRows),
                     launcherDailyLoads |-> launcherDailyLoads,
                     merged |-> merged,
                     updatedAt |-> toISOString(clock)])
     /\ UNCHANGED <<files, clock, probe, data, metrics, scrape, dataDir,
                    others>>

\* One evaluation of interpolateLauncherViewsAt on the samples of the last
\* run.
Interpolate(targetTimestampMs) ==
  /\ ~IsNull(out)
  /\ probe' = Some([target |-> targetTimestampMs,
                    views |-> interpolateLauncherViewsAt(Val(out).points,
                                                         targetTimestampMs)])
  /\ UNCHANGED <<files, clock, dailyJson, out, data, metrics, scrape, dataDir,
                 others>>

\* The decoding step of loadDailyData on the published daily.json.
DecodeDaily ==
  /\ ~IsNull(dailyJson)
  /\ data' = Some(loadDailyData(Val(dailyJson)))
  /\ UNCHANGED <<files, clock, dailyJson, out, probe, metrics, scrape, dataDir,
                 others>>

\* buildStats(data, lastUpdatedAt) of App.tsx.
BuildStats ==
  /\ ~IsNull(data)
  /\ stats' = Some(buildStats(Val(data), lastUpdatedAt))
  /\ UNCHANGED <<files, clock, dailyJson, out, probe, data, lastUpdatedAt, tableRows, filteredPoints,
                 scrape, dataDir, others>>

\* The range state of App at its mount: resolvePresetRange([], "2Y") at
\* the instant of the first render.
MountRange == Val(resolvePresetRange(<<>>, "2Y", ClockStart))

\* The ranges the slider hands to onChange on the dates of the points: from
\* the date of a point to the date of a later one.
SliderRangesOf(points) ==
  UNION {{[start |-> points[i].date, end |-> points[j].date] :
            j \in (i + 1)..Len(points)} : i \in 1..Len(points)}

\* The states preset, hasRangeOverride and range of App can be in when
\* data is rendered: the state of the mount with no control used, a preset
\* selected on the data or before the data arrived, and a range chosen
\* with the slider.
Selections(points) ==
  {[preset |-> "2Y", hasRangeOverride |-> FALSE, range |-> MountRange]}
  \cup {[preset |-> preset, hasRangeOverride |-> TRUE,
         range |-> Val(resolvePresetRange(points, preset, clock))] :
          preset \in {p \in RangePresets :
                        ~IsNull(resolvePresetRange(points, p, clock))}}
  \cup {[preset |-> "1M", hasRangeOverride |-> TRUE, range |-> MountRange]}
  \cup {[preset |-> "ALL", hasRangeOverride |-> TRUE, range |-> range] :
          range \in SliderRangesOf(points)}

\* The memos effectiveRange, filtered and tableRows of a render of App in
\* the state selection.  No error boundary encloses App: when
\* resolvePresetRange throws the render throws, React unmounts the tree and
\* no memo is left.
BuildTableRows(selection) ==
  /\ ~IsNull(data)
  /\ LET range == effectiveRange(Val(data), selection, clock)
     IN IF IsNull(range)
        THEN /\ filteredPoints' = Null
             /\ tableRows' = Null
        ELSE LET filtered == filterByRange(Val(data), Val(range))
             IN /\ filteredPoints' = Some(filtered)
                /\ tableRows' = Some(buildTableRows(filtered))
  /\ UNCHANGED <<files, clock, dailyJson, out, probe, data, lastUpdatedAt, stats, scrape, dataDir,
                 others>>

\* The ranges the range controls can select on the data: from the date of
\* a point to the date of a later one.
ChartRanges(points) ==
  {[start |-> points[i].date, end |-> points[j].date] :
     i \in 1..Len(points), j \in 1..Len(points)}

\* The memos of App that feed the RealmStock and the launcher charts, for
\* the selected range.
BuildCharts(range) ==
  /\ ~IsNull(data)
  /\ LET filtered == filterByRange(Val(data), range)
     IN charts' = Some([range |-> range,
                        filtered |-> filtered,
                        realmstock |-> chartOf(filtered, "realmstock_max"),
                        launcher |-> chartOf(filtered, "launcher_loads")])
  /\ UNCHANGED <<files, pipeline, metrics, scrape, dataDir, workflow, hook,
                 slider>>

\* retry(): the request key changes, the cleanup of the effect aborts the
\* request in flight and the effect starts the next request, which sets
\* isLoading and clears error before its fetch.
Retry ==
  /\ hook.mounted
  /\ Len(hook.requests) < MaxRequests
  /\ hook' = [hook EXCEPT !.requestKey = @ + 1,
                          !.requests = Append(Cleanup(@), NewRequest),
                          !.isLoading = TRUE,
                          !.error = Null]
  /\ UNCHANGED <<files, pipeline, metrics, scrape, dataDir, workflow, charts,
                 slider>>

\* The component unmounts: the cleanup aborts the request in flight.
Unmount ==
  /\ hook.mounted
  /\ hook' = [hook EXCEPT !.mounted = FALSE, !.requests = Cleanup(@)]
  /\ UNCHANGED <<files, pipeline, metrics, scrape, dataDir, workflow, charts,
                 slider>>

\* The promise of fetch() settles and loadDailyData goes on to its next
\* await or to its end. The promise of an aborted request rejects.
FetchSettles(r, outcome) ==
  /\ r \in 1..Len(hook.requests)
  /\ hook.requests[r].phase = "fetching"
  /\ hook' = IF hook.requests[r].aborted \/ outcome # "ok"
             THEN AfterThrow(hook, r, FetchMessage(outcome))
             ELSE [hook EXCEPT !.requests[r].phase = "reading"]
  /\ UNCHANGED <<files, pipeline, metrics, scrape, dataDir, workflow, charts,
                 slider>>

\* The body of the response of a request that is not aborted is read to
\* its end; the promise of response.json() settles in a later task.
BodyRead(r, body) ==
  /\ r \in 1..Len(hook.requests)
  /\ hook.requests[r].phase = "reading"
  /\ ~hook.requests[r].aborted
  /\ hook' = [hook EXCEPT !.requests[r].phase = "read",
                          !.requests[r].body = Some(body)]
  /\ UNCHANGED <<files, pipeline, metrics, scrape, dataDir, workflow, charts,
                 slider>>

\* The promise of response.json() settles and loadDailyData runs to its
\* end: it rejects when the abort came while the body was being read or
\* when the body is no JSON, and resolves with the parsed body otherwise.
JsonSettles(r) ==
  /\ r \in 1..Len(hook.requests)
  /\ \/ hook.requests[r].phase = "read"
     \/ hook.requests[r].phase = "reading" /\ hook.requests[r].aborted
  /\ LET request == hook.requests[r]
         parsed == IF request.phase = "read" THEN Val(request.body) ELSE Null
     IN IF IsNull(parsed)
        THEN /\ hook' = AfterThrow(hook, r, JsonMessage)
             /\ data' = data
        ELSE LET points == loadDailyData(Val(parsed))
             IN /\ data' = DataAfter(hook, r, data, points)
                /\ hook' = AfterData(hook, r, points)
  /\ UNCHANGED <<files, clock, dailyJson, out, probe, metrics, scrape, dataDir,
                 workflow, charts, slider>>

\* onChange of App, called once for every range of nextRanges in turn: the
\* range handed over last becomes the range prop.
Emit(nextRanges, event, drags) ==
  /\ slider' = [slider EXCEPT !.range = nextRanges[Len(nextRanges)],
                              !.emitted = nextRanges,
                              !.last = event,
                              !.drags = drags]
  /\ UNCHANGED <<files, pipeline, metrics, scrape, dataDir, workflow, charts,
                 hook>>

\* The start thumb is moved to nextStartRaw.
StartChange(nextStartRaw) ==
  /\ Len(slider.dates) >= 2
  /\ nextStartRaw \in 0..(Len(slider.dates) - 1)
  /\ Emit(<<onStartChange(slider.dates, slider.range, nextStartRaw)>>, "start",
          slider.drags)

\* The end thumb is moved to nextEndRaw.
EndChange(nextEndRaw) ==
  /\ Len(slider.dates) >= 2
  /\ nextEndRaw \in 0..(Len(slider.dates) - 1)
  /\ Emit(<<onEndChange(slider.dates, slider.range, nextEndRaw)>>, "end",
          slider.drags)

\* onTrackPointerDown: a pointer goes down on the active track and the
\* three listeners of its drag are registered on the window, after those
\* of the drags that have not stopped.
TrackPointerDown(clientX, clientWidth) ==
  /\ Len(slider.dates) >= 2
  /\ Len(slider.drags) < MaxDrags
  /\ LET drag == dragOf(slider.dates, slider.range, clientX, clientWidth)
     IN /\ drag.totalSteps > 0
        /\ drag.maxStart >= 0
        /\ slider' = [slider EXCEPT !.drags = Append(@, drag), !.last = "down"]
  /\ UNCHANGED <<files, pipeline, metrics, scrape, dataDir, workflow, charts,
                 hook>>

\* A pointermove on the window: every handleMove that is registered runs,
\* in the order of registration, with the values its drag captured.
PointerMove(clientX) ==
  /\ slider.drags # <<>>
  /\ Emit([k \in 1..Len(slider.drags) |->
             updateFromClientX(slider.dates, slider.drags[k], clientX)],
          "move", slider.drags)

\* A pointerup or pointercancel on the window: every handleStop that is
\* registered runs and removes the listeners of its drag.
PointerStop ==
  /\ slider.drags # <<>>
  /\ slider' = [slider EXCEPT !.drags = <<>>, !.last = "stop"]
  /\ UNCHANGED <<files, pipeline, metrics, scrape, dataDir, workflow, charts,
                 hook>>

\* The results a fetch of a source can have: it throws, or it returns a
\* count.
FetchResults == {Null, Some(0), Some(7)}

\* run() of scripts/scrape.ts up to the first fetch: ensureDataFiles, unless
\* the run is a dry run.
StartScrape(dryRun) ==
  /\ scrape.pc = "idle"
  /\ realmeyeFile' = ensureUnlessDryRun(realmeyeFile, dryRun)
  /\ realmstockFile' = ensureUnlessDryRun(realmstockFile, dryRun)
  /\ launcherFile' = ensureUnlessDryRun(launcherFile, dryRun)
  /\ dataDir' = IF dryRun THEN dataDir ELSE TRUE
  /\ scrape' = [ScrapeIdle EXCEPT
                  !.pc = "realmeye",
                  !.dryRun = dryRun,
                  !.before = [realmeye |-> realmeyeFile,
                              realmstock |-> realmstockFile,
                              launcher |-> launcherFile,
                              dataDir |-> dataDir]]
  /\ UNCHANGED <<realmeyeFallback, clock, dailyJson, out, probe, data, metrics,
                 others>>

\* The first try/catch of run(): scrapeRealmEye and appendRow.
ScrapeRealmEye(result) ==
  /\ scrape.pc = "realmeye"
  /\ realmeyeFile' = FileAfter(realmeyeFile, result, clock, scrape.dryRun)
  /\ scrape' = AfterSource(scrape, "realmeye", "realmstock", result)
  /\ UNCHANGED <<realmeyeFallback, realmstockFile, launcherFile, clock,
                 dailyJson, out, probe, data, metrics, dataDir, others>>

\* The second try/catch of run(): scrapeRealmStock and appendRow.
ScrapeRealmStock(result) ==
  /\ scrape.pc = "realmstock"
  /\ realmstockFile' = FileAfter(realmstockFile, result, clock, scrape.dryRun)
  /\ scrape' = AfterSource(scrape, "realmstock", "launcher", result)
  /\ UNCHANGED <<realmeyeFile, realmeyeFallback, launcherFile, clock,
                 dailyJson, out, probe, data, metrics, dataDir, others>>

\* The third try/catch of run(): scrapeImgurLauncher and appendRow, and the
\* warning that ends a run in which no source succeeded.
ScrapeLauncher(result) ==
  /\ scrape.pc = "launcher"
  /\ launcherFile' = FileAfter(launcherFile, result, clock, scrape.dryRun)
  /\ LET after == AfterSource(scrape, "launcher", "done", result)
     IN scrape' = [after EXCEPT !.warnings = IF after.successCount = 0
                                             THEN @ + 1 ELSE @]
  /\ UNCHANGED <<realmeyeFile, realmeyeFallback, realmstockFile, clock,
                 dailyJson, out, probe, data, metrics, dataDir, others>>

\* The data files as prepare() and verify() see them.
Targets ==
  [name \in FileNames |->
     Target(CASE name = "realmeye" -> realmeyeFile
              [] name = "realmstock" -> realmstockFile
              [] OTHER -> launcherFile,
            leading[name])]

\* The download directory after the downloads of prepare(): a download
\* replaces the file of an earlier run, and with no release picked nothing
\* is downloaded.
Downloaded(release, downloadKinds) ==
  [name \in FileNames |->
     IF release = "tag"
     THEN DownloadOf(downloadKinds[name], MinBytesOf(name), downloadDir[name])
     ELSE downloadDir[name]]

\* The files the loop of prepare() can ask the data branch for: those
\* below their minimum once the download was copied.
AskedOf(release, downloadKinds) ==
  {name \in FileNames :
     prepareSpec(Targets[name], MinBytesOf(name),
                 Downloaded(release, downloadKinds)[name], Null).threw}

\* prepare() runs before the scrape of the workflow run.
CanPrepare == prepared.runs < MaxPrepares /\ scrape.pc = "idle"

\* prepare() of scripts/prepare-baseline.ts, before any scrape of the
\* workflow run: repository tells whether GITHUB_REPOSITORY is set, release
\* what pickSourceTag does, downloadKinds what `gh release download` does
\* to the files of the download directory and branchKinds what the data
\* branch answers.  The loop reads the download directory whatever it
\* holds: the files an earlier run left there are still in it.
Prepare(repository, release, downloadKinds, branchKinds) ==
  /\ CanPrepare
  /\ LET downloaded == Downloaded(release, downloadKinds)
         branch ==
           [name \in FileNames |->
              BranchOf(branchKinds[name], MinBytesOf(name))]
         loop == prepareFrom(1, Targets, EmptyMap, downloaded, branch)
         early == ~repository \/ release = "throws"
         threw == early \/ loop.threw
     IN /\ dataDir' = IF repository THEN TRUE ELSE dataDir
        /\ realmeyeFile' =
             IF early THEN realmeyeFile ELSE loop.targets["realmeye"].file
        /\ realmstockFile' =
             IF early THEN realmstockFile ELSE loop.targets["realmstock"].file
        /\ launcherFile' =
             IF early THEN launcherFile ELSE loop.targets["launcher"].file
        /\ leading' =
             IF early THEN leading
             ELSE [name \in FileNames |-> loop.targets[name].leading]
        /\ downloadDir' = IF early THEN downloadDir ELSE downloaded
        /\ metaFile' = IF threw THEN metaFile ELSE Some(loop.metadata)
        /\ prepared' = [pc |-> IF threw THEN "threw" ELSE "done",
                        runs |-> prepared.runs + 1,
                        metaBefore |-> metaFile]
  /\ UNCHANGED <<realmeyeFallback, pipeline, metrics, scrape, verified,
                 migration, ui>>

\* verify(), the baseline growth check that follows the scrape.
Verify ==
  /\ scrape.pc = "done"
  /\ IsNull(verified)
  /\ verified' = Some(verify(metaFile, Targets))
  /\ UNCHANGED <<files, pipeline, metrics, scrape, dataDir, leading,
                 downloadDir, metaFile, prepared, migration, ui>>

\* run() of scripts/migrate-launcher.ts on the export source, a script of
\* its own that is run while no scrape is under way: it throws when there
\* is no export, and otherwise makes data/ and writes the launcher file
\* anew, whatever the file held.
MigrateLauncher(source, midnightHour) ==
  /\ migration.runs < MaxMigrations
  /\ scrape.pc = "idle"
  /\ IF ~source.exists
     THEN /\ migration' = [runs |-> migration.runs + 1, threw |-> TRUE,
                           rows |-> 0, lines |-> 0]
          /\ UNCHANGED <<launcherFile, dataDir, leading>>
     ELSE LET rows == parseRows(source)
              normalized == normalizedOf(rows, midnightHour)
          IN /\ launcherFile' = FileOf(JoinedLines(normalized))
             /\ leading' = [leading EXCEPT !["launcher"] = NoContent]
             /\ dataDir' = TRUE
             /\ migration' = [runs |-> migration.runs + 1, threw |-> FALSE,
                              rows |-> Len(rows), lines |-> Len(normalized)]
  /\ UNCHANGED <<realmeyeFile, realmeyeFallback, realmstockFile, pipeline,
                 metrics, scrape, downloadDir, metaFile, prepared, verified,
                 ui>>

Next == Tick \/ Run \/ DecodeDaily

NextWorkflow ==
  \/ /\ CanPrepare
     /\ \E repository \in BOOLEAN, release \in ReleaseOutcomes :
          \E downloadKinds \in DownloadsAfter(repository, release) :
            \E branchKinds \in BranchesAfter(repository, release,
                                              AskedOf(release, downloadKinds)) :
              Prepare(repository, release, downloadKinds, branchKinds)
  \/ \E dryRun \in BOOLEAN : StartScrape(dryRun)
  \/ \E result \in FetchResults : ScrapeRealmEye(result)
  \/ \E result \in FetchResults : ScrapeRealmStock(result)
  \/ \E result \in FetchResults : ScrapeLauncher(result)
  \/ Verify

NextScrape ==
  \/ Tick
  \/ \E source \in MigrationSources, midnightHour \in MidnightHours :
       MigrateLauncher(source, midnightHour)
  \/ \E dryRun \in BOOLEAN : StartScrape(dryRun)
  \/ \E result \in FetchResults : ScrapeRealmEye(result)
  \/ \E result \in FetchResults : ScrapeRealmStock(result)
  \/ \E result \in FetchResults : ScrapeLauncher(result)

NextMetrics ==
  \/ BuildStats
  \/ \E selection \in Selections(Val(data)) : BuildTableRows(selection)

NextHook ==
  \/ Retry
  \/ Unmount
  \/ \E r \in 1..MaxRequests, outcome \in FetchOutcomes : FetchSettles(r, outcome)
  \/ \E r \in 1..MaxRequests, body \in BodyOutcomes : BodyRead(r, body)
  \/ \E r \in 1..MaxRequests : JsonSettles(r)

NextSlider ==
  \/ \E nextStartRaw \in 0..MaxDates : StartChange(nextStartRaw)
  \/ \E nextEndRaw \in 0..MaxDates : EndChange(nextEndRaw)
  \/ \E clientX \in SliderXs, clientWidth \in SliderWidths :
       TrackPointerDown(clientX, clientWidth)
  \/ \E clientX \in SliderXs : PointerMove(clientX)
  \/ PointerStop

NextCharts == \E range \in ChartRanges(Val(data)) : BuildCharts(range)

NextCsv == Run

NextLauncher == Run \/ \E t \in ProbeInstants : Interpolate(t)

\* A workflow run: the data directory as checked out, before prepare().
InitWorkflow ==
  /\ realmeyeFile \in {NoFile, FileOf(<<Line(Noon, Jul(4), NumStr(9))>>)}
  /\ realmeyeFallback = NoFile
  /\ realmstockFile = NoFile
  /\ launcherFile = NoFile
  /\ dataDir \in {exists \in BOOLEAN : realmeyeFile.exists => exists}
  /\ InitRest

Spec == Init /\ [][Next]_vars

SpecCsv == InitCsv /\ [][NextCsv]_vars

SpecLauncher == InitLauncher /\ [][NextLauncher]_vars

SpecMetrics == InitMetrics /\ [][NextMetrics]_vars

SpecCharts == InitCharts /\ [][NextCharts]_vars

SpecHook == InitHook /\ [][NextHook]_vars

SpecSlider == InitSlider /\ [][NextSlider]_vars

SpecScrape == InitScrape /\ [][NextScrape]_vars

SpecWorkflow == InitWorkflow /\ [][NextWorkflow]_vars

----------------------------------------------------------------------------
(* Properties *)

Ran == ~IsNull(out)

\* C1: with the raw files unchanged, every execution of run() writes the
\* bytes daily.json already holds, whatever the clock says.
C1_IdempotentRun == [][~IsNull(dailyJson) => dailyJson' = dailyJson]_vars

\* The acceptance rule of the Sample Normalizer as the claim words it.
ClaimAccepts(line, counter) ==
  LET columns == SplitColumns(line)
  IN /\ Len(columns) >= 3
     /\ MatchesDate(columns[2])
     /\ ~IsNull(ParseInt(columns[3]))
     /\ Val(ParseInt(columns[3])) >= 0
     /\ counter => MatchesTime(columns[1])

AcceptedCount(lines, counter) ==
  Cardinality({i \in 1..Len(lines) : ClaimAccepts(lines[i], counter)})

\* C3: a row is accepted iff its date has the shape YYYY-MM-DD, its value
\* parses as a non-negative integer and, for the launcher, its time has the
\* shape HH:MM:SS; no accepted sample of any source is negative.
C3_RowAcceptance ==
  Ran =>
    LET o == Val(out)
    IN /\ Len(o.realmeyeRows) = AcceptedCount(o.realmeyeLines, FALSE)
       /\ Len(o.realmstockRows) = AcceptedCount(o.realmstockLines, FALSE)
       /\ Len(o.launcherRows) = AcceptedCount(o.launcherLines, TRUE)
       /\ \A i \in 1..Len(o.realmeyeRows) : o.realmeyeRows[i].players >= 0
       /\ \A i \in 1..Len(o.realmstockRows) : o.realmstockRows[i].players >= 0
       /\ \A i \in 1..Len(o.launcherRows) : o.launcherRows[i].views >= 0

RowDates(rows) == {rows[i].date : i \in 1..Len(rows)}

IsMaxOf(v, rows, date) ==
  /\ \E i \in 1..Len(rows) : rows[i].date = date /\ rows[i].players = v
  /\ \A i \in 1..Len(rows) : rows[i].date = date => rows[i].players <= v

DailyMaxLaw(rows, daily) ==
  /\ DOMAIN daily = RowDates(rows)
  /\ \A date \in DOMAIN daily : IsMaxOf(daily[date], rows, date)

\* C4: the map of aggregateMaxByDate has exactly the dates of the rows as
\* keys, and the value of a date is the largest value of the rows of that
\* date.
C4_DailyMax ==
  Ran => /\ DailyMaxLaw(Val(out).realmeyeRows, Val(out).realmeyeDaily)
         /\ DailyMaxLaw(Val(out).realmstockRows, Val(out).realmstockDaily)

\* Two rows of one date, the larger first, and the larger is the day's value.
C4_Witness ==
  /\ Ran
  /\ LET rows == Val(out).realmeyeRows
         daily == Val(out).realmeyeDaily
     IN /\ Len(rows) = 2
        /\ rows[1].date = rows[2].date
        /\ rows[1].players > rows[2].players
        /\ daily[rows[1].date] = rows[1].players

\* k is the fraction x rounded to the nearest integer, halves up.
IsRoundOf(k, x) ==
  /\ 2 * k * x.d - x.d <= 2 * x.n
  /\ 2 * x.n < 2 * k * x.d + x.d

\* x <= y on doubles.
DoubleLeq(x, y) == ~DoubleLess(y, x)

\* k is the double x >= 0 rounded to the nearest integer, halves up:
\* 2k - 1 <= 2x < 2k + 1.
IsRoundOfDouble(k, x) ==
  LET twice == MagMulInt(x.mag, 2)
  IN /\ k >= 0
     /\ ~x.neg
     /\ k >= 1 => ~MagLess(twice, MagOfInt(2 * k - 1))
     /\ MagLess(twice, MagOfInt(2 * k + 1))

\* The double x is no integer.
HasFraction(x) == \E j \in 4..9 : x.mag[j] # 0

\* The launcher_loads value the claim gives the day that starts at dayStartMs.
ClaimedLoadIs(load, points, dayStartMs) ==
  LET startViews == interpolateLauncherViewsAt(points, dayStartMs)
      endViews == interpolateLauncherViewsAt(points, dayStartMs + msPerDay)
      defined == /\ ~IsNull(startViews)
                 /\ ~IsNull(endViews)
                 /\ DoubleLeq(Val(startViews), Val(endViews))
  IN /\ defined =>
          (/\ ~IsNull(load)
           /\ IsRoundOfDouble(Val(load),
                              DoubleSub(Val(endViews), Val(startViews))))
     /\ ~defined => IsNull(load)
     /\ ~IsNull(load) => Val(load) \in Nat

\* C5: the value of every emitted day D is round(value(midnight(D+1)) -
\* value(midnight(D))) when both boundary values are defined and the
\* difference is not negative, and null otherwise; it is never negative.
C5_DailyLoadValue ==
  Ran =>
    \A date \in DOMAIN Val(out).launcherDailyLoads :
      ClaimedLoadIs(Val(out).launcherDailyLoads[date], Val(out).points,
                    Val(dateStartUtcMs(date)))

\* A day whose difference is not an integer and is stored rounded.
C5_Witness ==
  /\ Ran
  /\ \E date \in DOMAIN Val(out).launcherDailyLoads :
       LET points == Val(out).points
           dayStartMs == Val(dateStartUtcMs(date))
           startViews == interpolateLauncherViewsAt(points, dayStartMs)
           endViews == interpolateLauncherViewsAt(points, dayStartMs + msPerDay)
       IN /\ ~IsNull(startViews)
          /\ ~IsNull(endViews)
          /\ HasFraction(DoubleSub(Val(endViews), Val(startViews)))
          /\ ~IsNull(Val(out).launcherDailyLoads[date])
          /\ Val(Val(out).launcherDailyLoads[date]) > 0

\* The day 2024-07-04 of the samples 23:21:27 -> 0, 00:21:25 -> 21 and
\* 00:00:00 of the 5th -> 26: the value at its start is 13.500000000000002,
\* the difference 12.499999999999998, and the load stored is 12, where the
\* exact line gives 27/2 and 25/2.
C5_RoundingWitness ==
  /\ Ran
  /\ Len(Val(out).points) = 3
  /\ Val(out).points[2].views = 21
  /\ interpolateLauncherViewsAt(Val(out).points, Val(dateStartUtcMs(Jul(4))))
       = Some([neg |-> FALSE, mag |-> <<0, 0, 13, 2048, 0, 0, 0, 2048, 0>>])
  /\ Val(out).launcherDailyLoads[Jul(4)] = Some(12)

Probed == Ran /\ ~IsNull(probe)

HasSampleAt(points, t) == \E i \in 1..Len(points) : points[i].timestampMs = t

\* t is no sample instant and lies between two samples.
StrictlyBracketed(points, t) ==
  /\ ~HasSampleAt(points, t)
  /\ \E i \in 1..Len(points) : points[i].timestampMs < t
  /\ \E i \in 1..Len(points) : points[i].timestampMs > t

\* The latest sample before t.
PrevSample(points, t) ==
  points[CHOOSE i \in 1..Len(points) :
           /\ points[i].timestampMs < t
           /\ \A j \in 1..Len(points) :
                points[j].timestampMs < t => points[j].timestampMs <= points[i].timestampMs]

\* The earliest sample after t.
NextSample(points, t) ==
  points[CHOOSE i \in 1..Len(points) :
           /\ points[i].timestampMs > t
           /\ \A j \in 1..Len(points) :
                points[j].timestampMs > t => points[j].timestampMs >= points[i].timestampMs]

IsMidnight(t) == t % msPerDay = 0

\* views is the point of the line through previous and next at instant t,
\* as near as the rounding of the three operations that compute it allows:
\* it differs from the exact point by less than 2^-40.
OnLine(views, previous, next, t) ==
  LET spanMs == next.timestampMs - previous.timestampMs
      exact == MagOfInt(previous.views * spanMs
                          + (next.views - previous.views)
                              * (t - previous.timestampMs))
      scaled == MagMulInt(views.mag, spanMs)
      tolerance == MagMulInt(MagOfBit(32), spanMs)
  IN /\ ~views.neg
     /\ MagLess(scaled, MagAdd(exact, tolerance))
     /\ MagLess(exact, MagAdd(scaled, tolerance))

\* The days that start or end at the boundary t have no load.
BoundaryDaysNull(loads, t) ==
  /\ formatUtcDate(t - msPerDay) \in DOMAIN loads
  /\ IsNull(loads[formatUtcDate(t - msPerDay)])
  /\ formatUtcDate(t) \in DOMAIN loads => IsNull(loads[formatUtcDate(t)])

\* C6: a boundary that is no sample instant and whose bracketing samples
\* are more than 48 hours apart has the value null, and so has every day
\* that starts or ends at it; a bracket of exactly 48 hours is interpolated.
C6_GapGuard ==
  Probed =>
    LET points == Val(out).points
        t == Val(probe).target
    IN StrictlyBracketed(points, t) =>
         LET previous == PrevSample(points, t)
             next == NextSample(points, t)
             spanHours == (next.timestampMs - previous.timestampMs) \div 3600
             spanRest == (next.timestampMs - previous.timestampMs) % 3600
         IN /\ (spanHours > 48 \/ (spanHours = 48 /\ spanRest > 0)) =>
                 (/\ IsNull(Val(probe).views)
                  /\ IsMidnight(t) => BoundaryDaysNull(Val(out).launcherDailyLoads, t))
            /\ (spanHours = 48 /\ spanRest = 0 /\ next.views >= previous.views) =>
                 (/\ ~IsNull(Val(probe).views)
                  /\ OnLine(Val(Val(probe).views), previous, next, t))

\* A day boundary between two samples more than 48 hours apart, the later
\* with the larger value: no value, and the day before has no load.
C6_Witness ==
  /\ Probed
  /\ LET points == Val(out).points
         t == Val(probe).target
     IN /\ IsMidnight(t)
        /\ StrictlyBracketed(points, t)
        /\ NextSample(points, t).timestampMs - PrevSample(points, t).timestampMs
             > 48 * 3600
        /\ NextSample(points, t).views > PrevSample(points, t).views
        /\ IsNull(Val(probe).views)
        /\ formatUtcDate(t - msPerDay) \in DOMAIN Val(out).launcherDailyLoads

\* C7: a target between two samples of which the later has the smaller
\* value has the value null.
C7_NonMonotonicGuard ==
  Probed =>
    LET points == Val(out).points
        t == Val(probe).target
    IN (/\ StrictlyBracketed(points, t)
        /\ NextSample(points, t).views < PrevSample(points, t).views)
         => IsNull(Val(probe).views)

\* A target between two samples at most 48 hours apart, the later with the
\* smaller value.
C7_Witness ==
  /\ Probed
  /\ LET points == Val(out).points
         t == Val(probe).target
     IN /\ StrictlyBracketed(points, t)
        /\ NextSample(points, t).timestampMs - PrevSample(points, t).timestampMs
             <= 48 * 3600
        /\ NextSample(points, t).views < PrevSample(points, t).views
        /\ IsNull(Val(probe).views)

\* t is before the first sample, after the last, or there is no sample.
OutsideSamples(points, t) ==
  \/ Len(points) = 0
  \/ \A i \in 1..Len(points) : t < points[i].timestampMs
  \/ \A i \in 1..Len(points) : t > points[i].timestampMs

\* C8: a target before the first sample or after the last, or any target
\* when there is no sample, has the value null.
C8_NoExtrapolation ==
  Probed =>
    (OutsideSamples(Val(out).points, Val(probe).target) => IsNull(Val(probe).views))

\* A target after the last of two samples or more.
C8_Witness ==
  /\ Probed
  /\ Len(Val(out).points) >= 2
  /\ Val(probe).target > Val(out).points[Len(Val(out).points)].timestampMs
  /\ IsNull(Val(probe).views)

\* The cutoff of the claim, 2024-07-03, as an instant.
ClaimedCutoffMs == Val(DateParse(DateStr(2024, 7, 3), Midnight))

\* The days D with cutoff <= D < the day that contains the instant lastMs.
DaysUpTo(lastMs) ==
  {formatUtcDate(ClaimedCutoffMs + k * msPerDay) :
     k \in {j \in 0..((lastMs - ClaimedCutoffMs) \div msPerDay) :
              ClaimedCutoffMs + j * msPerDay < (lastMs \div msPerDay) * msPerDay}}

\* The instants of the accepted rows.
RowInstants(rows) ==
  {Val(DateParse(rows[i].date, rows[i].time)) :
     i \in {j \in 1..Len(rows) : ~IsNull(DateParse(rows[j].date, rows[j].time))}}

SetMax(S) == CHOOSE x \in S : \A y \in S : y <= x

\* C9 as claimed: for every accepted sample list the emitted days are
\* exactly the days from the cutoff to the day before the last sample's.
C9_EveryListEmitsRange ==
  Ran =>
    LET instants == RowInstants(Val(out).launcherRows)
    IN DOMAIN Val(out).launcherDailyLoads
         = IF instants = {} THEN {} ELSE DaysUpTo(SetMax(instants))

\* C9, amended: when the accepted rows dated on or after the cutoff have two
\* distinct instants or more, the emitted days are exactly the days from
\* the cutoff to the day before the last sample's, each with an integer or
\* null; with fewer than two such instants no day is emitted.
C9_EmittedRange ==
  Ran =>
    LET points == Val(out).points
        loads == Val(out).launcherDailyLoads
    IN IF Len(points) >= 2
       THEN /\ DOMAIN loads = DaysUpTo(points[Len(points)].timestampMs)
            /\ \A date \in DOMAIN loads : IsNull(loads[date]) \/ Val(loads[date]) \in Int
       ELSE DOMAIN loads = {}

\* Samples that start after the cutoff day: two days or more are emitted,
\* one with the value null and one with a load.
C9_Witness ==
  /\ Ran
  /\ Len(Val(out).points) >= 2
  /\ Val(out).points[1].timestampMs >= ClaimedCutoffMs + msPerDay \div 2
  /\ Cardinality(DOMAIN Val(out).launcherDailyLoads) >= 2
  /\ \E date \in DOMAIN Val(out).launcherDailyLoads :
       IsNull(Val(out).launcherDailyLoads[date])
  /\ \E date \in DOMAIN Val(out).launcherDailyLoads :
       ~IsNull(Val(out).launcherDailyLoads[date])

\* The field of a record for a source: the source's value, or null.
FieldIs(field, daily, date) ==
  IF date \in DOMAIN daily THEN field = Some(daily[date]) ELSE IsNull(field)

\* C10: mergeDaily returns one record per date of the union of the three key
\* sets, with strictly increasing dates, and each field is the source's
\* value for the date, or null when the source has no entry.
C10_Merge ==
  Ran =>
    LET o == Val(out)
        merged == o.merged
        dates == (DOMAIN o.realmeyeDaily) \cup (DOMAIN o.realmstockDaily)
                   \cup (DOMAIN o.launcherDailyLoads)
    IN /\ {merged[i].date : i \in 1..Len(merged)} = dates
       /\ Len(merged) = Cardinality(dates)
       /\ \A i \in 1..Len(merged) : \A j \in 1..Len(merged) :
            i < j => StrLess(merged[i].date, merged[j].date)
       /\ \A i \in 1..Len(merged) :
            /\ FieldIs(merged[i].realmeye_max, o.realmeyeDaily, merged[i].date)
            /\ FieldIs(merged[i].realmstock_max, o.realmstockDaily, merged[i].date)
            /\ IF merged[i].date \in DOMAIN o.launcherDailyLoads
               THEN merged[i].launcher_loads = o.launcherDailyLoads[merged[i].date]
               ELSE IsNull(merged[i].launcher_loads)

\* Three sources with different key sets: a date only the launcher has, a
\* date only a point-in-time source has, and a date two sources share.
C10_Witness ==
  /\ Ran
  /\ LET o == Val(out)
     IN /\ Len(o.merged) >= 4
        /\ \E date \in DOMAIN o.launcherDailyLoads :
             date \notin (DOMAIN o.realmeyeDaily) \cup (DOMAIN o.realmstockDaily)
        /\ \E date \in DOMAIN o.realmeyeDaily : date \notin DOMAIN o.launcherDailyLoads
        /\ \E date \in DOMAIN o.realmstockDaily : date \in DOMAIN o.launcherDailyLoads
        /\ \E i \in 1..Len(o.merged) :
             ~IsNull(o.merged[i].launcher_loads) /\ ~IsNull(o.merged[i].realmstock_max)

\* A date string that names a day of the calendar.
IsCalendarDay(date) ==
  /\ MatchesDate(date)
  /\ Num2(date, 6) \in 1..12
  /\ Num2(date, 9) \in 1..DaysInMonth(Num4(date, 1), Num2(date, 6))

\* C11: every date of the dataset the run produces is a valid calendar day:
\* a month from 01 to 12 and a day that exists in that month.
C11_ValidCalendarDays ==
  Ran => \A i \in 1..Len(Val(out).merged) : IsCalendarDay(Val(out).merged[i].date)

\* The field of a point-in-time source is null exactly when no accepted row
\* of the source has the date, and 0 when the largest value of the date is 0.
PlayersFieldKeepsZero(field, rows, date) ==
  /\ IsNull(field) <=> date \notin RowDates(rows)
  /\ IsMaxOf(0, rows, date) => field = Some(0)

\* The load of a day is null exactly when a boundary value is undefined or
\* the difference is negative, and 0 when the two boundary values are equal.
LoadFieldKeepsZero(field, points, loads, date) ==
  LET dayStartMs == Val(dateStartUtcMs(date))
      startViews == interpolateLauncherViewsAt(points, dayStartMs)
      endViews == interpolateLauncherViewsAt(points, dayStartMs + msPerDay)
      defined == /\ date \in DOMAIN loads
                 /\ ~IsNull(startViews)
                 /\ ~IsNull(endViews)
                 /\ DoubleLeq(Val(startViews), Val(endViews))
  IN /\ IsNull(field) <=> ~defined
     /\ (defined /\ startViews = endViews) => field = Some(0)

\* C12: in the merged and in the encoded dataset a field is null only when
\* its source contributed no value for the day, and a source value of 0 (a
\* daily max of 0, a derived load of 0) is the integer 0, not null.
C12_NullIsNotZero ==
  Ran =>
    LET o == Val(out)
        compact == Val(dailyJson)
    IN \A i \in 1..Len(o.merged) :
         LET point == o.merged[i]
         IN /\ PlayersFieldKeepsZero(point.realmeye_max, o.realmeyeRows, point.date)
            /\ PlayersFieldKeepsZero(point.realmstock_max, o.realmstockRows, point.date)
            /\ LoadFieldKeepsZero(point.launcher_loads, o.points,
                                  o.launcherDailyLoads, point.date)
            /\ compact.a[i] = point.realmeye_max
            /\ compact.c[i] = point.realmstock_max
            /\ compact.f[i] = point.launcher_loads

\* One dataset with a daily max of 0, a derived load of 0 and a null field.
C12_Witness ==
  /\ Ran
  /\ \E i \in 1..Len(Val(out).merged) :
       /\ Val(out).merged[i].realmstock_max = Some(0)
       /\ Val(dailyJson).c[i] = Some(0)
  /\ \E i \in 1..Len(Val(out).merged) :
       /\ Val(out).merged[i].launcher_loads = Some(0)
       /\ Val(dailyJson).f[i] = Some(0)
  /\ \E i \in 1..Len(Val(out).merged) : IsNull(Val(out).merged[i].realmstock_max)

Picks == {"realmeye_max", "realmstock_max", "launcher_loads"}

DeltaField(pick) ==
  CASE pick = "realmeye_max" -> "realmeye_delta"
    [] pick = "realmstock_max" -> "realmstock_delta"
    [] pick = "launcher_loads" -> "launcher_delta"

\* The rows before row i that have a value for the field.
EarlierWithValue(points, i, pick) ==
  {j \in 1..(i - 1) : ~IsNull(points[j][pick])}

\* The number of the calendar day a valid date names.
DayNumber(date) == DaysFromCivil(Num4(date, 1), Num2(date, 6), Num2(date, 9))

\* Row j is the nearest earlier row with a value and lies g calendar days
\* before row i.
NearestIsDaysBefore(points, i, j, pick, g) ==
  /\ EarlierWithValue(points, i, pick) # {}
  /\ j = SetMax(EarlierWithValue(points, i, pick))
  /\ IsCalendarDay(points[i].date)
  /\ IsCalendarDay(points[j].date)
  /\ DayNumber(points[i].date) - DayNumber(points[j].date) = g

\* A render of App has computed its table rows from its filtered points.
BuiltRows == ~IsNull(tableRows) /\ ~IsNull(filteredPoints)

\* C13: the delta of a field of row i is null when the row has no value for
\* the field or no earlier row has one, and it is value[i] - value[j] when
\* the nearest earlier row j with a value is exactly one calendar day
\* before row i.
C13_DeltaExact ==
  BuiltRows =>
    LET points == Val(filteredPoints)
        rows == Val(tableRows)
    IN /\ Len(rows) = Len(points)
       /\ \A i \in 1..Len(points) : \A pick \in Picks :
            LET delta == rows[i][DeltaField(pick)]
            IN /\ IsNull(points[i][pick]) => IsNull(delta)
               /\ EarlierWithValue(points, i, pick) = {} => IsNull(delta)
               /\ \A j \in 1..(i - 1) :
                    (/\ ~IsNull(points[i][pick])
                     /\ NearestIsDaysBefore(points, i, j, pick, 1))
                    => delta = Some(Val(points[i][pick]) - Val(points[j][pick]))

\* The values 100, 130, 110 on three consecutive days: deltas null, 30, -20.
C13_Witness ==
  /\ BuiltRows
  /\ Val(filteredPoints) = Val(data)
  /\ Len(Val(data)) = 3
  /\ Val(data)[1].date = DateStr(2026, 1, 1)
  /\ Val(data)[2].date = DateStr(2026, 1, 2)
  /\ Val(data)[3].date = DateStr(2026, 1, 3)
  /\ Val(data)[1].realmeye_max = Some(100)
  /\ Val(data)[2].realmeye_max = Some(130)
  /\ Val(data)[3].realmeye_max = Some(110)
  /\ IsNull(Val(tableRows)[1].realmeye_delta)
  /\ Val(tableRows)[2].realmeye_delta = Some(30)
  /\ Val(tableRows)[3].realmeye_delta = Some(0 - 20)
  /\ IsNull(Val(tableRows)[2].launcher_delta)

\* C14: when the nearest earlier row j with a value is g calendar days
\* before row i, the delta is round((value[i] - value[j]) / g) for
\* 1 < g <= 7 and null for g > 7 and for g <= 0; no other row is consulted.
C14_AmortizedDelta ==
  BuiltRows =>
    LET points == Val(filteredPoints)
        rows == Val(tableRows)
    IN \A i \in 1..Len(points) : \A pick \in Picks : \A j \in 1..(i - 1) :
         LET g == DayNumber(points[i].date) - DayNumber(points[j].date)
         IN (/\ ~IsNull(points[i][pick])
             /\ NearestIsDaysBefore(points, i, j, pick, g))
            => LET delta == rows[i][DeltaField(pick)]
                   total == Val(points[i][pick]) - Val(points[j][pick])
               IN /\ (1 < g /\ g <= 7) =>
                       (/\ ~IsNull(delta)
                        /\ IsRoundOf(Val(delta), Frac(total, g)))
                  /\ (g > 7 \/ g <= 0) => IsNull(delta)

\* A gap of seven days with a rounded delta, upward and downward, and a gap
\* of eight days with no delta.
C14_Witness ==
  /\ BuiltRows
  /\ Val(filteredPoints) = Val(data)
  /\ Len(Val(data)) = 3
  /\ Val(data)[1].date = DateStr(2026, 1, 2)
  /\ Val(data)[2].date = DateStr(2026, 1, 3)
  /\ Val(data)[3].date = DateStr(2026, 1, 10)
  /\ Val(data)[2].launcher_loads = Some(1000)
  /\ Val(data)[3].launcher_loads = Some(1200)
  /\ Val(tableRows)[3].launcher_delta = Some(29)
  /\ Val(data)[2].realmeye_max = Some(130)
  /\ Val(data)[3].realmeye_max = Some(110)
  /\ Val(tableRows)[3].realmeye_delta = Some(0 - 3)
  /\ Val(data)[1].realmstock_max = Some(20)
  /\ IsNull(Val(data)[2].realmstock_max)
  /\ Val(data)[3].realmstock_max = Some(25)
  /\ IsNull(Val(tableRows)[3].realmstock_delta)

BuiltStats == ~IsNull(stats)

\* The rows that have a primary value.
WithPrimary(points) == {i \in 1..Len(points) : ~IsNull(points[i].realmeye_max)}

SetMin(S) == CHOOSE x \in S : \A y \in S : x <= y

\* extreme is the value v with the date of the first row that has it.
IsFirstDayOf(extreme, points, v) ==
  /\ extreme.value = Some(v)
  /\ extreme.date =
       Some(points[SetMin({i \in WithPrimary(points) : Val(points[i].realmeye_max) = v})].date)

\* C15: the peak is the largest and the low the smallest of the non-null
\* primary values, each with the date of the first day that has the value;
\* a later day with the same value does not replace the date.
C15_PeakAndLow ==
  BuiltStats =>
    LET points == Val(data)
        values == {Val(points[i].realmeye_max) : i \in WithPrimary(points)}
    IN values # {} =>
         /\ IsFirstDayOf(Val(stats).allTimePeak, points, SetMax(values))
         /\ IsFirstDayOf(Val(stats).allTimeLow, points, SetMin(values))

\* The peak is reached on the first day and again on the third, the low on
\* the second: the peak keeps the date of the first day.
C15_Witness ==
  /\ BuiltStats
  /\ Len(Val(data)) = 3
  /\ Val(data)[1].realmeye_max = Some(130)
  /\ Val(data)[2].realmeye_max = Some(100)
  /\ Val(data)[3].realmeye_max = Some(130)
  /\ Val(data)[1].date # Val(data)[3].date
  /\ Val(stats).allTimePeak = [value |-> Some(130), date |-> Some(Val(data)[1].date)]
  /\ Val(stats).allTimeLow = [value |-> Some(100), date |-> Some(Val(data)[2].date)]

\* C16: currentRealmeye is the primary value of the last row that has one,
\* and it is null exactly when no row has one.
C16_CurrentValue ==
  BuiltStats =>
    LET points == Val(data)
        current == Val(stats).currentRealmeye
    IN /\ IsNull(current) <=> WithPrimary(points) = {}
       /\ WithPrimary(points) # {} =>
            current = points[SetMax(WithPrimary(points))].realmeye_max

\* The last row has no primary value and two earlier rows have different
\* ones: the current value is that of the second row.
C16_Witness ==
  /\ BuiltStats
  /\ Len(Val(data)) = 3
  /\ Val(data)[1].realmeye_max = Some(100)
  /\ Val(data)[2].realmeye_max = Some(130)
  /\ IsNull(Val(data)[3].realmeye_max)
  /\ Val(stats).currentRealmeye = Some(130)

\* The ISO instant of midnight UTC of a date.
MidnightIso(date) ==
  date \o <<"T", "0", "0", ":", "0", "0", ":", "0", "0", ".", "0", "0", "0", "Z">>

\* C17: a supplied freshness timestamp is returned unchanged; with none
\* supplied the result is the ISO instant of midnight UTC of the date of the
\* last row, and null for the empty sequence.
C17_LastUpdated ==
  BuiltStats =>
    LET points == Val(data)
        result == Val(stats).lastUpdatedAt
    IN /\ ~IsNull(lastUpdatedAt) => result = lastUpdatedAt
       /\ (IsNull(lastUpdatedAt) /\ Len(points) = 0) => IsNull(result)
       /\ (/\ IsNull(lastUpdatedAt)
           /\ Len(points) > 0
           /\ IsCalendarDay(points[Len(points)].date))
          => result = Some(MidnightIso(points[Len(points)].date))

\* No timestamp is supplied and the last of two rows is 2026-01-03.
C17_Witness ==
  /\ BuiltStats
  /\ IsNull(lastUpdatedAt)
  /\ Len(Val(data)) = 2
  /\ Val(data)[2].date = DateStr(2026, 1, 3)
  /\ Val(stats).lastUpdatedAt = Some(MidnightIso(DateStr(2026, 1, 3)))

\* C18: on the empty sequence with no timestamp supplied every statistic is
\* null and the table has no row.
C18_EmptyDataset ==
  /\ (BuiltStats /\ Val(data) = <<>> /\ IsNull(lastUpdatedAt))
     => Val(stats) = [currentRealmeye |-> Null,
                      allTimePeak |-> [value |-> Null, date |-> Null],
                      allTimeLow |-> [value |-> Null, date |-> Null],
                      lastUpdatedAt |-> Null]
  /\ (BuiltRows /\ Val(filteredPoints) = <<>>) => Val(tableRows) = <<>>

\* Both functions have run on the empty sequence.
C18_Witness ==
  /\ BuiltStats
  /\ BuiltRows
  /\ Val(data) = <<>>
  /\ IsNull(lastUpdatedAt)

EmptyFile == FileOf(<<>>)

\* Every record of the merged dataset has null in the field.
FieldNullEverywhere(merged, field) ==
  \A i \in 1..Len(merged) : IsNull(merged[i][field])

\* The arrays of the written dataset have one entry per merged record.
WrittenDataset ==
  /\ ~IsNull(dailyJson)
  /\ Len(Val(dailyJson).d) = Len(Val(out).merged)
  /\ Len(Val(dailyJson).a) = Len(Val(out).merged)
  /\ Len(Val(dailyJson).c) = Len(Val(out).merged)
  /\ Len(Val(dailyJson).f) = Len(Val(out).merged)

\* C19 as claimed: the field of a source whose raw file does not exist is
\* null on every date, and the other fields are what they would be with the
\* file present and empty.
C19_MissingFileIsNull ==
  Ran =>
    LET merged == Val(out).merged
        realmeyeSource == realmeyeSourceOf(realmeyeFile, realmeyeFallback)
    IN /\ WrittenDataset
       /\ ~realmeyeFile.exists =>
            /\ FieldNullEverywhere(merged, "realmeye_max")
            /\ merged = mergedOf(EmptyFile, realmstockFile, launcherFile)
       /\ ~realmstockFile.exists =>
            /\ FieldNullEverywhere(merged, "realmstock_max")
            /\ merged = mergedOf(realmeyeSource, EmptyFile, launcherFile)
       /\ ~launcherFile.exists =>
            /\ FieldNullEverywhere(merged, "launcher_loads")
            /\ merged = mergedOf(realmeyeSource, realmstockFile, EmptyFile)

\* C19, amended: the same for realmstock-full.csv and launcher-full.csv, and
\* for RealmEye when neither realmeye-full.csv nor the fallback export
\* exists; with only realmeye-full.csv missing the dataset is the one the
\* fallback export gives.
C19_MissingSource ==
  Ran =>
    LET merged == Val(out).merged
        realmeyeSource == realmeyeSourceOf(realmeyeFile, realmeyeFallback)
    IN /\ WrittenDataset
       /\ (~realmeyeFile.exists /\ ~realmeyeFallback.exists) =>
            /\ FieldNullEverywhere(merged, "realmeye_max")
            /\ merged = mergedOf(EmptyFile, realmstockFile, launcherFile)
       /\ (~realmeyeFile.exists /\ realmeyeFallback.exists) =>
            merged = mergedOf(realmeyeFallback, realmstockFile, launcherFile)
       /\ ~realmstockFile.exists =>
            /\ FieldNullEverywhere(merged, "realmstock_max")
            /\ merged = mergedOf(realmeyeSource, EmptyFile, launcherFile)
       /\ ~launcherFile.exists =>
            /\ FieldNullEverywhere(merged, "launcher_loads")
            /\ merged = mergedOf(realmeyeSource, realmstockFile, EmptyFile)

\* realmstock-full.csv is missing while the other two sources have values.
C19_Witness ==
  /\ Ran
  /\ ~realmstockFile.exists
  /\ realmeyeFile.exists
  /\ launcherFile.exists
  /\ \E i \in 1..Len(Val(out).merged) : ~IsNull(Val(out).merged[i].realmeye_max)
  /\ \E i \in 1..Len(Val(out).merged) : ~IsNull(Val(out).merged[i].launcher_loads)
  /\ FieldNullEverywhere(Val(out).merged, "realmstock_max")

Sources == {"realmeye", "realmstock", "launcher"}

ScrapeDone == scrape.pc = "done"

\* The raw file of a source.
FileOfSource(source) ==
  CASE source = "realmeye" -> realmeyeFile
    [] source = "realmstock" -> realmstockFile
    [] source = "launcher" -> launcherFile

\* after is before with exactly one more row, whose value is players.
OneRowAppended(before, after, players) ==
  /\ Len(after) = Len(before) + 1
  /\ SubSeq(after, 1, Len(before)) = before
  /\ LET columns == SplitColumns(after[Len(after)])
     IN /\ Len(columns) = 3
        /\ MatchesTime(columns[1])
        /\ MatchesDate(columns[2])
        /\ ParseInt(columns[3]) = Some(players)

\* Every source was attempted and the successes were counted.
AllAttempted ==
  /\ scrape.attempted = Sources
  /\ scrape.successCount =
       Cardinality({source \in Sources : ~IsNull(scrape.results[source])})

\* C20 as claimed: whatever the three fetches do, every source is attempted,
\* every successful source has exactly one row appended to its own file and
\* every failed source none, and the run ends normally.
C20_EverySuccessAppends ==
  ScrapeDone =>
    /\ AllAttempted
    /\ \A source \in Sources :
         LET before == scrape.before[source].lines
             after == FileOfSource(source).lines
             result == scrape.results[source]
         IN IF IsNull(result) THEN after = before
            ELSE OneRowAppended(before, after, Val(result))

\* C20, amended: the same for a run without --dry-run; a dry run attempts
\* every source as well and leaves the three files as they are.
C20_SourceIndependence ==
  ScrapeDone =>
    /\ AllAttempted
    /\ \A source \in Sources :
         LET before == scrape.before[source].lines
             after == FileOfSource(source).lines
             result == scrape.results[source]
         IN IF IsNull(result) \/ scrape.dryRun THEN after = before
            ELSE OneRowAppended(before, after, Val(result))
    /\ scrape.dryRun => \A source \in Sources : FileOfSource(source) = scrape.before[source]

\* A run that writes: RealmEye fails, and the two later sources succeed and
\* have their rows.
C20_Witness ==
  /\ ScrapeDone
  /\ ~scrape.dryRun
  /\ IsNull(scrape.results["realmeye"])
  /\ ~IsNull(scrape.results["realmstock"])
  /\ ~IsNull(scrape.results["launcher"])
  /\ realmeyeFile.lines = scrape.before["realmeye"].lines
  /\ Len(realmstockFile.lines) = Len(scrape.before["realmstock"].lines) + 1
  /\ Len(launcherFile.lines) = Len(scrape.before["launcher"].lines) + 1

\* A run in which the three fetches fail ends with no row appended.
C20_AllFailWitness ==
  /\ ScrapeDone
  /\ scrape.successCount = 0
  /\ scrape.attempted = Sources
  /\ scrape.warnings = 4

\* C21: a scrape run with --dry-run, whatever the fetches do, creates no
\* file and no directory and appends no row: the files and the directory
\* are after the run what they were before it.
C21_DryRunWritesNothing ==
  (scrape.pc # "idle" /\ scrape.dryRun) =>
    /\ realmeyeFile = scrape.before["realmeye"]
    /\ realmstockFile = scrape.before["realmstock"]
    /\ launcherFile = scrape.before["launcher"]
    /\ dataDir = scrape.before["dataDir"]

\* A finished dry run with a successful fetch, started with no data
\* directory and no file.
C21_Witness ==
  /\ ScrapeDone
  /\ scrape.dryRun
  /\ scrape.successCount > 0
  /\ ~dataDir
  /\ ~realmeyeFile.exists
  /\ ~realmstockFile.exists
  /\ ~launcherFile.exists

\* The last prepare() succeeded.
Prepared == prepared.pc = "done"

\* The file of a source did not get a row: its fetch threw.
Unreachable(source) == MapHas(scrape.results, source) /\ IsNull(scrape.results[source])

\* C22: prepare-baseline, then a scrape run in which exactly one source is
\* unreachable, then the baseline growth check: the check does not throw.
C22_SingleSourceDown ==
  (/\ Prepared
   /\ ScrapeDone
   /\ ~scrape.dryRun
   /\ Cardinality({source \in Sources : Unreachable(source)}) = 1
   /\ ~IsNull(verified))
    => ~Val(verified).threw

\* C30: a run of prepare() that throws leaves the metadata file as it was;
\* after a run that did not throw, and before the scrape, every file of the
\* data directory has its minimum size and the metadata file holds the
\* rows and bytes of each; every entry of a metadata file has at least the
\* minimum of its file.
C30_BaselineMinimum ==
  /\ prepared.pc = "threw" => metaFile = prepared.metaBefore
  /\ (Prepared /\ scrape.pc = "idle") =>
       /\ ~IsNull(metaFile)
       /\ \A name \in FileNames :
            /\ fileSize(Targets[name]) >= MinBytesOf(name)
            /\ Val(metaFile)[name] =
                 [rows |-> fileRows(Targets[name]),
                  bytes |-> fileSize(Targets[name])]
  /\ ~IsNull(metaFile) =>
       /\ DOMAIN Val(metaFile) = FileNames
       /\ \A name \in FileNames :
            Val(metaFile)[name].bytes >= MinBytesOf(name)
  /\ (IsNull(metaFile) /\ prepared.runs > 0) => prepared.pc = "threw"

\* A run that threw at the last file after the first came from the
\* release and the second from the data branch, with no metadata written;
\* the first file had a row before.
C30_ThrewWitness ==
  /\ prepared.pc = "threw"
  /\ IsNull(metaFile)
  /\ leading["realmeye"] = ContentOfSize(50000)
  /\ leading["realmstock"] = ContentOfSize(150020)
  /\ fileSize(Targets["launcher"]) = 4980

\* A run that wrote the metadata file with one file exactly at its minimum
\* from the release and one recovered from the data branch.
C30_Witness ==
  /\ Prepared
  /\ scrape.pc = "idle"
  /\ ~IsNull(metaFile)
  /\ Val(metaFile)["realmeye"].bytes = 50000
  /\ Val(metaFile)["launcher"].bytes = 5020

\* YYYY-MM-DD with the two hyphens taken out.
WithoutHyphens(date) ==
  SubSeq(date, 1, 4) \o SubSeq(date, 6, 7) \o SubSeq(date, 9, 10)

\* C23: the dataset written for n merged points has arrays d, a, c and f of
\* length n; d[i] is the date of point i without hyphens and a[i], c[i],
\* f[i] are its three fields, null kept; u is the timestamp handed in,
\* whatever the points are.
C23_CompactAlignment ==
  Ran =>
    LET compact == Val(dailyJson)
        merged == Val(out).merged
        n == Len(merged)
    IN /\ DOMAIN compact = {"u", "d", "a", "c", "f"}
       /\ Len(compact.d) = n
       /\ Len(compact.a) = n
       /\ Len(compact.c) = n
       /\ Len(compact.f) = n
       /\ \A i \in 1..n :
            /\ compact.d[i] = WithoutHyphens(merged[i].date)
            /\ \A k \in 1..Len(compact.d[i]) : compact.d[i][k] # "-"
            /\ compact.a[i] = merged[i].realmeye_max
            /\ compact.c[i] = merged[i].realmstock_max
            /\ compact.f[i] = merged[i].launcher_loads
       /\ compact.u = Val(out).updatedAt
       /\ compact.u = toCompactDaily(<<>>, Val(out).updatedAt).u

\* A written dataset of two days or more with a null and a value in one
\* record.
C23_Witness ==
  /\ Ran
  /\ Len(Val(dailyJson).d) >= 2
  /\ \E i \in 1..Len(Val(dailyJson).d) :
       /\ IsNull(Val(dailyJson).c[i])
       /\ ~IsNull(Val(dailyJson).a[i])

\* views lies between the values of previous and next.
BetweenViews(views, previous, next) ==
  /\ DoubleLeq(DoubleOf(previous.views), views)
  /\ DoubleLeq(views, DoubleOf(next.views))

\* C24: for a target within the samples, the value is the value of the
\* sample whose instant is the target, if there is one; otherwise the pair
\* used is the latest sample before the target and the earliest after it,
\* with no sample between them, and when the guards pass (at most 48 hours
\* apart, the later value not the smaller) the value is the point of the
\* line through the pair at the target, between the values of the pair.
C24_AdjacentBracket ==
  Probed =>
    LET points == Val(out).points
        t == Val(probe).target
        views == Val(probe).views
    IN /\ \A i \in 1..Len(points) :
            points[i].timestampMs = t => views = Some(DoubleOf(points[i].views))
       /\ StrictlyBracketed(points, t) =>
            LET previous == PrevSample(points, t)
                next == NextSample(points, t)
                guards ==
                  /\ next.timestampMs - previous.timestampMs <= 48 * 3600
                  /\ next.views >= previous.views
            IN /\ \A j \in 1..Len(points) :
                    ~(/\ previous.timestampMs < points[j].timestampMs
                      /\ points[j].timestampMs < next.timestampMs)
               /\ guards <=> ~IsNull(views)
               /\ guards =>
                    /\ OnLine(Val(views), previous, next, t)
                    /\ BetweenViews(Val(views), previous, next)

\* A target strictly inside the second of the two brackets of three
\* samples, with a value strictly between those of the pair.
C24_Witness ==
  /\ Probed
  /\ LET points == Val(out).points
         t == Val(probe).target
     IN /\ Len(points) >= 3
        /\ StrictlyBracketed(points, t)
        /\ PrevSample(points, t) # points[1]
        /\ ~IsNull(Val(probe).views)
        /\ DoubleLess(DoubleOf(PrevSample(points, t).views), Val(Val(probe).views))
        /\ DoubleLess(Val(Val(probe).views), DoubleOf(NextSample(points, t).views))

\* A target that is the instant of a sample, with its value.
C24_SampleWitness ==
  /\ Probed
  /\ HasSampleAt(Val(out).points, Val(probe).target)
  /\ ~IsNull(Val(probe).views)

\* The accepted rows dated on or after 2024-07-03 that have an instant.
RowsFromCutoff(rows) ==
  {i \in 1..Len(rows) :
     /\ ~StrLess(rows[i].date, DateStr(2024, 7, 3))
     /\ ~IsNull(DateParse(rows[i].date, rows[i].time))}

InstantOfRow(row) == Val(DateParse(row.date, row.time))

\* C25: the points of normalizeLauncherPoints have strictly increasing
\* instants; there is one point for each instant of an accepted row dated
\* on or after the cutoff and none else, and its value is the largest of
\* the rows of that instant.
C25_NormalizedPoints ==
  Ran =>
    LET rows == Val(out).launcherRows
        points == Val(out).points
        kept == RowsFromCutoff(rows)
    IN /\ \A i \in 1..Len(points) : \A j \in 1..Len(points) :
            i < j => points[i].timestampMs < points[j].timestampMs
       /\ {points[i].timestampMs : i \in 1..Len(points)}
            = {InstantOfRow(rows[i]) : i \in kept}
       /\ \A p \in 1..Len(points) :
            LET same == {i \in kept :
                           InstantOfRow(rows[i]) = points[p].timestampMs}
            IN /\ \E i \in same : rows[i].views = points[p].views
               /\ \A i \in same : rows[i].views <= points[p].views

\* Two rows of one instant, the larger value first, give one point.
C25_Witness ==
  /\ Ran
  /\ Len(Val(out).points) = 1
  /\ Len(Val(out).launcherRows) = 2
  /\ Val(out).launcherRows[1].views > Val(out).launcherRows[2].views
  /\ Val(out).points[1].views = Val(out).launcherRows[1].views
  /\ RowsFromCutoff(Val(out).launcherRows) = {1, 2}

\* A row before the cutoff is left out, the other kept.
C25_CutoffWitness ==
  /\ Ran
  /\ Len(Val(out).launcherRows) = 2
  /\ Len(Val(out).points) = 1
  /\ Cardinality(RowsFromCutoff(Val(out).launcherRows)) = 1

\* A row dated 2024-09-31 is kept as the point of 2024-10-01T00:00:00Z.
C25_RolloverWitness ==
  /\ Ran
  /\ \E i \in 1..Len(Val(out).launcherRows) :
       Val(out).launcherRows[i].date = DateStr(2024, 9, 31)
  /\ Len(Val(out).points) = 2
  /\ Val(out).points[1]
       = [timestampMs |-> Val(dateStartUtcMs(DateStr(2024, 10, 1))), views |-> 4]
  /\ Val(out).launcherDailyLoads[DateStr(2024, 10, 1)] = Some(4)

\* The rows of a file in every order.
Reordered(lines) ==
  LET n == Len(lines)
      Orders == {order \in [1..n -> 1..n] :
                   \A i \in 1..n : \E j \in 1..n : order[j] = i}
  IN {[i \in 1..n |-> lines[order[i]]] : order \in Orders}

\* The rows of a file with one of them repeated, at any place.
WithRepeat(lines) ==
  LET n == Len(lines)
  IN {SubSeq(lines, 1, at) \o <<lines[i]>> \o SubSeq(lines, at + 1, n) :
        i \in 1..n, at \in 0..n}

Rearranged(lines) == Reordered(lines) \cup WithRepeat(lines)

Reversed(lines) == [i \in 1..Len(lines) |-> lines[Len(lines) + 1 - i]]

\* C26: the merged sequence is the same when the rows of a source file are
\* put in another order or one of them is repeated: the merged sequence is
\* mergeDaily of the two daily maxima and of the daily loads of the launcher
\* points, and every rearrangement of a file gives the same maxima or the
\* same points; all three files reversed give the same merged sequence.
C26_OrderInsensitive ==
  Ran =>
    LET realmeyeLines == Val(out).realmeyeLines
        realmstockLines == Val(out).realmstockLines
        launcherLines == Val(out).launcherLines
        merged == Val(out).merged
    IN /\ merged = mergeDaily(Val(out).realmeyeDaily, Val(out).realmstockDaily,
                              launcherLoadsOfPoints(Val(out).points))
       /\ \A lines \in Rearranged(realmeyeLines) :
            aggregateMaxByDate(parseCsvRows(FileOf(lines)))
              = Val(out).realmeyeDaily
       /\ \A lines \in Rearranged(realmstockLines) :
            aggregateMaxByDate(parseCsvRows(FileOf(lines)))
              = Val(out).realmstockDaily
       /\ \A lines \in Rearranged(launcherLines) :
            normalizeLauncherPoints(parseLauncherRows(FileOf(lines)))
              = Val(out).points
       /\ mergedOf(FileOf(Reversed(realmeyeLines)),
                   FileOf(Reversed(realmstockLines)),
                   FileOf(Reversed(launcherLines))) = merged

\* A run on a file of two rows of one day with different values, the
\* smaller first.
C26_Witness ==
  /\ Ran
  /\ Len(Val(out).realmeyeRows) = 2
  /\ Val(out).realmeyeRows[1].date = Val(out).realmeyeRows[2].date
  /\ Val(out).realmeyeRows[1].players < Val(out).realmeyeRows[2].players
  /\ Len(Val(out).merged) = 1

Charted == ~IsNull(charts)

\* The points of the filtered data that have a value for the field and a
\* date among the 7 calendar days that end at the given date.
WeekEndingAt(filtered, pick, date) ==
  {j \in 1..Len(filtered) :
     /\ ~IsNull(filtered[j][pick])
     /\ DayNumber(date) - DayNumber(filtered[j].date) \in 0..6}

RECURSIVE SumOfField(_, _, _)
SumOfField(filtered, pick, indexes) ==
  IF indexes = {} THEN 0
  ELSE LET j == CHOOSE x \in indexes : TRUE
       IN Val(filtered[j][pick]) + SumOfField(filtered, pick, indexes \ {j})

\* The smoothed series of a chart has the dates of the unsmoothed one, and
\* each value is the rounded mean of the values of the 7 calendar days that
\* end at its date.
WeeklyMeanOfDays(chart, filtered, pick) ==
  /\ Len(chart.smoothed) = Len(chart.values)
  /\ Len(chart.dates) = Len(chart.values)
  /\ \A i \in 1..Len(chart.dates) :
       LET week == WeekEndingAt(filtered, pick, chart.dates[i])
       IN /\ week # {}
          /\ ~IsNull(chart.smoothed[i])
          /\ IsRoundOf(Val(chart.smoothed[i]),
                       Frac(SumOfField(filtered, pick, week), Cardinality(week)))

\* The filtered data is one record per calendar day, in the order of the
\* days.
OneRecordPerDay(filtered) ==
  /\ \A i \in 1..Len(filtered) : IsCalendarDay(filtered[i].date)
  /\ \A i \in 1..Len(filtered) : \A j \in 1..Len(filtered) :
       i < j => DayNumber(filtered[i].date) < DayNumber(filtered[j].date)

\* C27: with weekly smoothing, the value of a day of the RealmStock or the
\* launcher series is the rounded mean of the source's values over the 7
\* calendar days ending that day, also when the source has days without
\* data in the range; the smoothed series has the length and the dates of
\* the unsmoothed one.
C27_WeeklySmoothing ==
  (Charted /\ OneRecordPerDay(Val(charts).filtered))
    => /\ WeeklyMeanOfDays(Val(charts).realmstock, Val(charts).filtered,
                           "realmstock_max")
       /\ WeeklyMeanOfDays(Val(charts).launcher, Val(charts).filtered,
                           "launcher_loads")

\* The three values the hook returns besides retry.
Returned == <<data, hook.isLoading, hook.error>>

\* loadDailyData of request r goes on in this step.
GoesOn(r) ==
  /\ r \in 1..Len(hook.requests)
  /\ hook'.requests[r].phase # hook.requests[r].phase

\* No step of a request whose effect was cleaned up changes a value.
NoStaleStep ==
  \A r \in 1..MaxRequests :
    (GoesOn(r) /\ hook.requests[r].aborted) => Returned' = Returned

\* Every request has run to its end.
AllSettled == \A r \in 1..Len(hook.requests) : hook.requests[r].phase = "done"

\* The values are those the request started last came to.
LatestAlone ==
  LET latest == hook.requests[Len(hook.requests)]
  IN /\ ~hook.isLoading
     /\ ~IsNull(latest.result)
     /\ IF Val(latest.result).ok
        THEN data = Some(Val(latest.result).data) /\ hook.error = Null
        ELSE hook.error = Some(Val(latest.result).message)

\* C28: under every interleaving of retry(), unmount and the completions
\* of the requests in flight, a request whose effect was cleaned up changes
\* none of data, error and isLoading; when every request has settled and
\* the component is mounted, the three values are those of the request
\* started last.
C28_NoStaleUpdate ==
  /\ [][NoStaleStep]_vars
  /\ []((AllSettled /\ hook.mounted) => LatestAlone)

\* date is a date of the list.
InList(date, dates) == \E i \in 1..Len(dates) : dates[i] = date

\* The index of a date of the list, counted from 0.
IndexIn(date, dates) == (CHOOSE i \in 1..Len(dates) : dates[i] = date) - 1

\* C29: for a list of n >= 2 strictly increasing dates and any range, and
\* after any sequence of onStartChange, onEndChange and track drags with the
\* emitted range fed back, the bounds satisfy 0 <= start < end <= n - 1;
\* every emitted range has a start and an end that are dates of the list,
\* the start before the end; every range a drag emits has the end - start
\* the bounds had when that drag began.
C29_SliderBounds ==
  LET dates == slider.dates
      n == Len(dates)
      current == bounds(dates, slider.range)
      emitted == slider.emitted
  IN n >= 2 =>
       /\ 0 <= current.start
       /\ current.start < current.end
       /\ current.end <= n - 1
       /\ \A k \in 1..Len(emitted) :
            /\ InList(emitted[k].start, dates)
            /\ InList(emitted[k].end, dates)
            /\ StrLess(emitted[k].start, emitted[k].end)
       /\ emitted # <<>> =>
            /\ slider.range = emitted[Len(emitted)]
            /\ current.start = IndexIn(slider.range.start, dates)
            /\ current.end = IndexIn(slider.range.end, dates)
       /\ slider.last = "move" =>
            /\ Len(emitted) = Len(slider.drags)
            /\ \A k \in 1..Len(emitted) :
                 IndexIn(emitted[k].end, dates) - IndexIn(emitted[k].start, dates)
                   = slider.drags[k].currentWindow

\* Two drags under way on three dates, the first begun on a window of two
\* steps and the second, after the end thumb was moved, on a window of one
\* step: a move hands over the whole list for the first and the last two
\* dates for the second, which become the range.
C29_Witness ==
  /\ Len(slider.dates) = 3
  /\ slider.last = "move"
  /\ Len(slider.drags) = 2
  /\ slider.drags[1].currentWindow = 2
  /\ slider.drags[2].currentWindow = 1
  /\ slider.drags[2].baseStart = 0
  /\ slider.emitted[1] = [start |-> slider.dates[1], end |-> slider.dates[3]]
  /\ slider.emitted[2] = [start |-> slider.dates[2], end |-> slider.dates[3]]
  /\ bounds(slider.dates, slider.range) = [start |-> 1, end |-> 2]

\* A range prop whose start lies after its end and after every date.
C29_AnyRangeWitness ==
  /\ Len(slider.dates) = 3
  /\ slider.last = "none"
  /\ StrLess(slider.range.end, slider.range.start)
  /\ StrLess(slider.dates[3], slider.range.start)
  /\ bounds(slider.dates, slider.range) = [start |-> 1, end |-> 2]

=============================================================================
